---- MODULE Spec2Model ----
(***************************************************************************)
(* LabVerse assistant agent: the per-query pipeline of                     *)
(* labverse/agent/assistant_agent.py (AssistantAgent.run_query), the       *)
(* session object of labverse/agent/session.py and the executor of         *)
(* labverse/agent/executor.py.                                             *)
(*                                                                         *)
(* run_query is a coroutine on one asyncio event loop.  Its only           *)
(* suspension point is the await of _query_llm; every other stage runs     *)
(* synchronously, so while one call is between two suspension points no    *)
(* other call makes a step.  "running" is the call that holds the event    *)
(* loop (0 when the loop is free).                                         *)
(*                                                                         *)
(* Confidences are percentages (0.8 is 80).                                *)
(*                                                                         *)
(* ComponentSpec calls one component by itself (the clarifier, the intent  *)
(* classifier, the entity extractor, _merge_entities), as the component    *)
(* test of src/test_agent.py does; "probe" holds that call's arguments and *)
(* result.                                                                 *)
(***************************************************************************)
EXTENDS Integers, Sequences, FiniteSets, TLC

\* ---------------------------------------------------------------- bounds
MaxCalls == 2            \* run_query invocations in one behaviour
NumSessions == 1         \* session IDs a caller may name
MaxLoopPhase == 1        \* phases of a non-terminating generated program

Calls == 1..MaxCalls
SessionIds == 1..NumSessions
\* query texts (two sequential queries of one conversation)
Queries == {"Show me the glucose data",
            "Now create a histogram of that data"}
\* session_id None or "" (both falsy in _get_or_create_session)
NoId == 0
\* keys of AssistantAgent.sessions: the named IDs, and one fresh uuid4 per
\* call that names no ID
StoreIds == 1..(NumSessions + MaxCalls)
\* the UserSession objects, each numbered by the call that constructs it
SessionKeys == Calls
\* no UserSession
NoKey == 0

\* ------------------------------------------------- registry and documents
available_files == <<"lab_results.csv", "demographics.csv">>
\* AssistantAgent is built without file_schemas (src/app.py:31-36)
file_schemas == <<>>

\* an entity that is not a string (the model-based classifier's JSON may
\* carry any value in its entities map); .lower() on it raises AttributeError
NonStr == "<non-string>"

\* str.lower() on the texts of the model
Lower(s) ==
    IF s = "Lab_Results.csv" THEN "lab_results.csv"
    ELSE IF s = "Glucose" THEN "glucose" ELSE s

Min(a, b) == IF a < b THEN a ELSE b

\* Python's "sub in s" on the (lowercased) texts of the model
Substr(sub, s) ==
    \/ sub = s
    \/ <<sub, s>> \in { <<"csv", "lab_results.csv">>,
                        <<"csv", "demographics.csv">>,
                        <<"lab_results", "lab_results.csv">>,
                        <<"glucose", "glucose, cholesterol, age">>,
                        <<"age", "glucose, cholesterol, age">>,
                        <<"age", "patient_id, age, sex">> }

DocLab ==
    [file_path |-> "data/lab_results.csv", file_name |-> "lab_results.csv",
     columns |-> "glucose, cholesterol, age"]
DocDemo ==
    [file_path |-> "data/demographics.csv", file_name |-> "demographics.csv",
     columns |-> "patient_id, age, sex"]

DocNotes ==
    [file_path |-> "data/notes.txt", file_name |-> "notes.txt",
     columns |-> ""]

\* what the semantic search may hand back (an empty list also when it fails)
SearchResults == { <<>>, <<DocLab>>, <<DocDemo, DocLab>> }

\* ------------------------------------------------------------- intents
IntentType ==
    {"search_retrieval", "metadata_query", "data_visualization",
     "statistical_analysis", "data_cleaning", "new_dataset_generation",
     "file_summary", "code_generation", "scientific_question",
     "access_permission", "help_instruction"}

\* results classify_intent hands to the orchestrator in the model
IntentResults ==
    { [primary_intent |-> "search_retrieval", confidence |-> 30],
      [primary_intent |-> "data_visualization", confidence |-> 50],
      [primary_intent |-> "statistical_analysis", confidence |-> 70] }

NoIntent == [primary_intent |-> "none", confidence |-> 0]

\* the intents in the order of the intent_patterns dictionary
IntentOrder ==
    <<"search_retrieval", "metadata_query", "data_visualization",
      "statistical_analysis", "data_cleaning", "new_dataset_generation",
      "file_summary", "code_generation", "scientific_question",
      "access_permission", "help_instruction">>

\* queries given to the classifier by itself
ClassifierQueries ==
    Queries \cup
    { "Show me a histogram of glucose levels",
      "What columns are in this file?",
      "Perform a t-test between two groups",
      "Clean the data by removing outliers",
      "hello",
      "plot a histogram chart and graph the distribution",
      "find the file and plot a histogram chart and graph the distribution" }

\* number of matches of an intent's patterns in the lowercased query
\* (re.findall over intent_patterns), for the queries of the model
PatternScore(query, intent) ==
    LET hits ==
          { <<"Show me the glucose data", "search_retrieval", 1>>,
            <<"Show me the glucose data", "data_visualization", 1>>,
            <<"Now create a histogram of that data",
              "data_visualization", 1>>,
            <<"Show me a histogram of glucose levels",
              "search_retrieval", 1>>,
            <<"Show me a histogram of glucose levels",
              "data_visualization", 2>>,
            <<"What columns are in this file?", "metadata_query", 1>>,
            <<"Perform a t-test between two groups",
              "statistical_analysis", 2>>,
            <<"Clean the data by removing outliers", "data_cleaning", 2>>,
            <<"plot a histogram chart and graph the distribution",
              "data_visualization", 5>>,
            <<"find the file and plot a histogram chart and graph the distribution",
              "search_retrieval", 1>>,
            <<"find the file and plot a histogram chart and graph the distribution",
              "data_visualization", 5>> }
    IN  IF \E h \in hits: h[1] = query /\ h[2] = intent
        THEN (CHOOSE h \in hits: h[1] = query /\ h[2] = intent)[3]
        ELSE 0

\* max(intent_scores, key=intent_scores.get): the first intent, in
\* dictionary order, with the highest score (0 when no pattern matched)
RECURSIVE ArgMaxScore(_, _, _)
ArgMaxScore(query, i, best) ==
    IF i > Len(IntentOrder) THEN best
    ELSE IF PatternScore(query, IntentOrder[i])
            > (IF best = 0 THEN 0 ELSE PatternScore(query, IntentOrder[best]))
         THEN ArgMaxScore(query, i + 1, i)
         ELSE ArgMaxScore(query, i + 1, best)

\* secondary intents that take in every other intent with a match
SecondaryIntentsAnyScore(query, primary_intent, max_score) ==
    SelectSeq(IntentOrder,
              LAMBDA intent: /\ PatternScore(query, intent) > 0
                             /\ intent # primary_intent)

\* the secondary_intents comprehension: the intents of intent_scores (those
\* with a match, in dictionary order) other than the primary whose score
\* is >= max_score * 0.5
SecondaryIntents(query, primary_intent, max_score) ==
    SelectSeq(IntentOrder,
              LAMBDA intent: /\ PatternScore(query, intent) > 0
                             /\ intent # primary_intent
                             /\ 2 * PatternScore(query, intent) >= max_score)

\* _rule_based_classification
RuleBasedClassification(query) ==
    LET best == ArgMaxScore(query, 1, 0)
    IN  IF best = 0
        THEN [primary_intent |-> "search_retrieval",
              secondary_intents |-> <<>>, confidence |-> 30]
        ELSE LET max_score == PatternScore(query, IntentOrder[best])
             IN  [primary_intent |-> IntentOrder[best],
                  secondary_intents |->
                      SecondaryIntents(query, IntentOrder[best], max_score),
                  confidence |-> IF max_score * 20 + 30 > 90 THEN 90
                                 ELSE max_score * 20 + 30]

\* what the model-based classifier does: there is none (llm is None), the
\* call fails, its text is no JSON object of the expected keys, or it
\* answers with a primary_intent string and a confidence number
NoLlm == [kind |-> "absent", primary_intent |-> "none", confidence |-> 0]
LlmClassifierBehaviours ==
    { NoLlm, [NoLlm EXCEPT !.kind = "fails"],
      [NoLlm EXCEPT !.kind = "unparseable"] }
    \cup { [kind |-> "answer", primary_intent |-> i, confidence |-> x] :
             i \in IntentType \cup {"plotting"},
             x \in {-50, 0, 50, 85, 100, 150} }

\* _llm_based_classification reading an unknown intent name as
\* search_retrieval instead of failing on it
LlmBasedClassificationLenient(query, llm) ==
    IF llm.kind = "answer"
    THEN [primary_intent |-> IF llm.primary_intent \in IntentType
                             THEN llm.primary_intent
                             ELSE "search_retrieval",
          secondary_intents |-> <<>>,
          confidence |-> llm.confidence]
    ELSE RuleBasedClassification(query)

\* _llm_based_classification: the answer as an IntentResult (IntentType(..)
\* rejects an unknown name; confidence is any float), and the rule-based
\* result on any Exception
LlmBasedClassification(query, llm) ==
    IF llm.kind = "answer" /\ llm.primary_intent \in IntentType
    THEN [primary_intent |-> llm.primary_intent,
          secondary_intents |-> <<>>,
          confidence |-> llm.confidence]
    ELSE RuleBasedClassification(query)

\* classify_intent's test for consulting the model:
\* self.llm and rule_based_result.confidence < 0.7
LlmInvoked(query, llm) ==
    /\ llm.kind # "absent"
    /\ RuleBasedClassification(query).confidence < 70

\* classify_intent taking the model's result at equal confidence too
ClassifyIntentOfOnTie(query, llm) ==
    LET rule_based_result == RuleBasedClassification(query)
        llm_result == LlmBasedClassification(query, llm)
    IN  IF /\ LlmInvoked(query, llm)
           /\ llm_result.confidence >= rule_based_result.confidence
        THEN llm_result
        ELSE rule_based_result

\* classify_intent
ClassifyIntentOf(query, llm) ==
    LET rule_based_result == RuleBasedClassification(query)
        llm_result == LlmBasedClassification(query, llm)
    IN  IF /\ LlmInvoked(query, llm)
           /\ llm_result.confidence > rule_based_result.confidence
        THEN llm_result
        ELSE rule_based_result

\* ------------------------------------------------------------- entities
NoEntities ==
    [files |-> <<>>, columns |-> <<>>, statistical_methods |-> <<>>,
     visualization_types |-> <<>>, confidence |-> 0]

\* combined_entities (intent_result.entities overridden by the extractor's
\* structured entities) together with the extractor's confidence
EntityResults ==
    { NoEntities,
      [NoEntities EXCEPT !.files = <<"Lab_Results.csv">>, !.confidence = 90],
      [NoEntities EXCEPT !.files = <<"lab_results.csv">>,
                         !.columns = <<"glucose">>,
                         !.statistical_methods = <<"t-test">>,
                         !.visualization_types = <<"histogram">>,
                         !.confidence = 100],
      [NoEntities EXCEPT !.files = <<"zzz.csv">>, !.confidence = 40],
      [NoEntities EXCEPT !.files = <<NonStr>>],
      [NoEntities EXCEPT !.files = <<"lab_results.csv">>,
                         !.columns = <<NonStr>>, !.confidence = 90] }

\* ------------------------------------------------------ entity extractor
MaxEntities == 3         \* entities in a list handed to _merge_entities

Entity(text, label, confidence) ==
    [text |-> text, label |-> label, confidence |-> confidence]

ExtractorQueries ==
    { "hello", "Show me the glucose data",
      "show me the file lab_results.csv",
      "Create a scatter plot of glucose vs age from the lab_results.csv file",
      "Summarize zzz.csv" }

\* _extract_with_patterns: the matches of self.patterns in the lowercased
\* query, in pattern order, each with confidence 0.8
ExtractWithPatterns(query) ==
    IF query = "Show me the glucose data"
    THEN << Entity("glucose", "columns", 80) >>
    ELSE IF query = "show me the file lab_results.csv"
    THEN << Entity("lab_results.csv", "files", 80),
            Entity("lab_results", "files", 80) >>
    ELSE IF query = "Create a scatter plot of glucose vs age from the lab_results.csv file"
    THEN << Entity("lab_results.csv", "files", 80),
            Entity("glucose", "columns", 80),
            Entity("scatter plot", "visualization_types", 80) >>
    ELSE IF query = "Summarize zzz.csv"
    THEN << Entity("zzz.csv", "files", 80) >>
    ELSE <<>>

\* the spaCy pass: no model loaded (self.nlp is None), or the entities of
\* _extract_with_nlp: mapped named entities at 0.7, noun chunks at 0.5
NlpBehaviours ==
    { [present |-> FALSE, entities |-> <<>>],
      [present |-> TRUE, entities |-> <<>>],
      [present |-> TRUE,
       entities |-> << Entity("Glucose", "potential_column", 70),
                       Entity("glucose", "potential_column", 50) >>] }

\* the context argument: None, the one run_query passes (no schemas, so no
\* columns), one with the columns of lab_results.csv
NoContext ==
    [present |-> FALSE, available_files |-> <<>>,
     available_columns |-> <<>>]
ExtractorContexts ==
    { NoContext,
      [present |-> TRUE, available_files |-> available_files,
       available_columns |-> <<>>],
      [present |-> TRUE, available_files |-> available_files,
       available_columns |-> <<"glucose", "cholesterol", "age">>] }

\* the model-based extraction: no model, a failing call or unparseable
\* text, or a JSON list of entities with the confidences the model wrote
LlmExtractorBehaviours ==
    { [kind |-> "absent", entities |-> <<>>],
      [kind |-> "fails", entities |-> <<>>] }
    \cup { [kind |-> "answer",
            entities |-> << Entity("glucose", "columns", x) >>] :
             x \in {-30, 60, 95, 150} }

\* _validate_with_context for one entity
ValidateEntity(entity, context) ==
    IF entity.label = "files"
    THEN IF \E i \in 1..Len(context.available_files):
               Substr(Lower(entity.text), Lower(context.available_files[i]))
         THEN [entity EXCEPT !.confidence = Min(100, @ + 20)]
         ELSE [entity EXCEPT !.confidence = @ \div 2]
    ELSE IF entity.label \in {"columns", "potential_column"}
    THEN IF \E i \in 1..Len(context.available_columns):
               Substr(Lower(entity.text),
                      Lower(context.available_columns[i]))
         THEN [entity EXCEPT !.label = "columns",
                             !.confidence = Min(100, @ + 30)]
         ELSE [entity EXCEPT !.confidence = (@ * 7) \div 10]
    ELSE entity

\* _validate_with_context
ValidateWithContext(entities, context) ==
    [i \in 1..Len(entities) |-> ValidateEntity(entities[i], context)]

\* _extract_with_llm: the entities of the answer as they are; [] when there
\* is no model or the call or the parse fails
ExtractWithLlm(llm) ==
    IF llm.kind = "answer" THEN llm.entities ELSE <<>>

\* the key of _merge_entities
MergeKey(entity) == <<Lower(entity.text), entity.label>>

\* one step of _merge_entities where a later duplicate always replaces the
\* earlier one
MergeIntoLastWins(merged, entity) ==
    IF \E i \in 1..Len(merged): MergeKey(merged[i]) = MergeKey(entity)
    THEN [i \in 1..Len(merged) |->
            IF MergeKey(merged[i]) = MergeKey(entity)
            THEN entity ELSE merged[i]]
    ELSE Append(merged, entity)

\* one step of the loop of _merge_entities: the entity replaces the one
\* stored under its key if its confidence is higher, and is stored under a
\* new key (at the end of the dictionary) otherwise
MergeInto(merged, entity) ==
    IF \E i \in 1..Len(merged): MergeKey(merged[i]) = MergeKey(entity)
    THEN [i \in 1..Len(merged) |->
            IF /\ MergeKey(merged[i]) = MergeKey(entity)
               /\ entity.confidence > merged[i].confidence
            THEN entity ELSE merged[i]]
    ELSE Append(merged, entity)

RECURSIVE MergeFrom(_, _)
MergeFrom(merged, entities) ==
    IF entities = <<>> THEN merged
    ELSE MergeFrom(MergeInto(merged, Head(entities)), Tail(entities))

\* _merge_entities: list(merged.values())
MergeEntities(entities) == MergeFrom(<<>>, entities)

\* _structure_entities: per label, the texts of the entities with
\* confidence >= 0.5 (list(set(..)): no order)
StructureEntities(entities) ==
    [label \in {entities[i].label : i \in
                  {i \in 1..Len(entities) : entities[i].confidence >= 50}}
       |-> {entities[i].text : i \in
              {i \in 1..Len(entities) :
                 /\ entities[i].label = label
                 /\ entities[i].confidence >= 50}}]

RECURSIVE SumConfidence(_)
SumConfidence(entities) ==
    IF entities = <<>> THEN 0
    ELSE Head(entities).confidence + SumConfidence(Tail(entities))

\* _calculate_confidence
CalculateConfidence(entities) ==
    IF entities = <<>> THEN 0
    ELSE Min(100, SumConfidence(entities) \div Len(entities)
                  + Min(20, 5 * Cardinality({entities[i].label :
                                               i \in 1..Len(entities)})))

\* extract_entities
ExtractEntitiesOf(query, nlp, context, llm) ==
    LET found == ExtractWithPatterns(query)
                 \o (IF nlp.present THEN nlp.entities ELSE <<>>)
        validated == IF context.present
                     THEN ValidateWithContext(found, context) ELSE found
        all == IF llm.kind # "absent" /\ Len(validated) < 3
               THEN validated \o ExtractWithLlm(llm) ELSE validated
    IN  [entities |-> MergeEntities(all),
         structured_entities |-> StructureEntities(MergeEntities(all)),
         confidence |-> CalculateConfidence(MergeEntities(all))]

\* ---------------------------------------------------------------- session
\* current_turn = None
NoTurn ==
    [turn_id |-> 0, user_query |-> "none", intent |-> "none",
     ai_response |-> "none", clarification_needed |-> FALSE,
     clarification_question |-> "none", code_generated |-> "none",
     execution_result |-> "none"]

VARIABLES
    sessions,               \* AssistantAgent.sessions: per ID, the
                            \* UserSession stored under it or NoKey
    conversation_history,   \* per UserSession: sequence of completed turns
    current_turn,           \* per UserSession: the in-flight turn or NoTurn
    focused_files,          \* per UserSession: set of focused file paths
    running,                \* the call holding the event loop, 0 if free
    ncalls,                 \* run_query invocations so far
    calls,                  \* per call: position and local variables
    probe                   \* the last call made on a component by itself

vars == <<sessions, conversation_history, current_turn, focused_files,
          running, ncalls, calls, probe>>

\* no component has been called by itself
NoProbe == [op |-> "none"]

\* ------------------------------------------------------------- clarifier
\* a Clarifier object: its available_files and file_schemas.  The one of
\* the application (src/app.py) has no schemas, the one of the repository's
\* component test has the schema of lab_results.csv.
AppClarifier ==
    [available_files |-> available_files, file_schemas |-> file_schemas]
TestClarifier ==
    [available_files |-> available_files,
     file_schemas |-> << [file |-> "lab_results.csv",
                          columns |-> <<"glucose", "cholesterol", "age">>] >>]

\* the session argument of the clarifier: None, or a UserSession with its
\* focused files
NoSession == [present |-> FALSE, focused_files |-> {}]
SessionArg(focused) == [present |-> TRUE, focused_files |-> focused]

RECURSIVE FileMatches(_, _)
\* existing_files of _check_file_specification: for each mentioned file in
\* turn, the available files whose lowercased name contains it, appended
FileMatches(self, mentioned) ==
    IF mentioned = <<>> THEN <<>>
    ELSE SelectSeq(self.available_files,
                   LAMBDA f: Substr(Lower(Head(mentioned)), Lower(f)))
         \o FileMatches(self, Tail(mentioned))

HasNonStr(texts) == \E i \in 1..Len(texts): texts[i] = NonStr

\* columns of every schema, in registry order
RECURSIVE SchemaColumns(_)
SchemaColumns(schemas) ==
    IF schemas = <<>> THEN <<>>
    ELSE Head(schemas).columns \o SchemaColumns(Tail(schemas))

\* _check_file_specification: the missing categories it reports.  With no
\* file entity the focus is looked at only "if ... and session"; with file
\* entities the matches of each are appended (existing_files.extend) and
\* the length of that list is tested
CheckFileSpecification(self, entities, session) ==
    IF entities.files = <<>>
    THEN IF session.present /\ session.focused_files = {}
         THEN <<"file_specification">> ELSE <<>>
    ELSE IF FileMatches(self, entities.files) = <<>> THEN <<"valid_file">>
         ELSE IF Len(FileMatches(self, entities.files)) > 1
              THEN <<"specific_file">>
              ELSE <<>>

\* _check_column_specification
CheckColumnSpecification(self, entities) ==
    IF entities.columns = <<>> THEN <<"column_specification">>
    ELSE IF /\ self.file_schemas # <<>>
            /\ \A i \in 1..Len(entities.columns):
                 \A j \in 1..Len(SchemaColumns(self.file_schemas)):
                   ~Substr(Lower(entities.columns[i]),
                           Lower(SchemaColumns(self.file_schemas)[j]))
         THEN <<"valid_columns">>
         ELSE <<>>

\* _check_statistical_method_specification
CheckStatisticalMethodSpecification(entities) ==
    IF entities.statistical_methods = <<>>
    THEN <<"statistical_method">> ELSE <<>>

\* _check_visualization_specification
CheckVisualizationSpecification(entities) ==
    IF entities.visualization_types = <<>>
    THEN <<"visualization_type">> ELSE <<>>

\* missing_info with the column check applied whatever the intent
MissingInfoAlwaysColumns(self, intent, entities, session) ==
    CheckFileSpecification(self, entities, session)
    \o CheckColumnSpecification(self, entities)
    \o (IF intent = "statistical_analysis"
        THEN CheckStatisticalMethodSpecification(entities) ELSE <<>>)
    \o (IF intent = "data_visualization"
        THEN CheckVisualizationSpecification(entities) ELSE <<>>)

\* missing_info accumulated by check_clarification_needed
MissingInfo(self, intent, entities, session) ==
    CheckFileSpecification(self, entities, session)
    \o (IF intent \in {"data_visualization", "statistical_analysis",
                       "data_cleaning"}
        THEN CheckColumnSpecification(self, entities) ELSE <<>>)
    \o (IF intent = "statistical_analysis"
        THEN CheckStatisticalMethodSpecification(entities) ELSE <<>>)
    \o (IF intent = "data_visualization"
        THEN CheckVisualizationSpecification(entities) ELSE <<>>)

InSeq(x, seq) == \E i \in 1..Len(seq): seq[i] = x

\* the suggestion a check returns together with the category it reports
\* (the text before the names it lists)
SuggestionFor(category) ==
    IF category = "file_specification" THEN "Available files:"
    ELSE IF category = "valid_file" THEN "Did you mean:"
    ELSE IF category = "specific_file"
    THEN "Multiple files match. Please specify:"
    ELSE IF category = "column_specification"
    THEN "Please specify which columns or variables to analyze"
    ELSE IF category = "valid_columns" THEN "Available columns:"
    ELSE IF category = "statistical_method"
    THEN "Available methods: t-test, ANOVA, correlation, regression, chi-square"
    ELSE "Available plots: histogram, scatter, boxplot, heatmap, bar chart"

\* suggestions accumulated by check_clarification_needed: each check that
\* reports a category extends the list by the one suggestion it returns
Suggestions(missing_info) ==
    [i \in 1..Len(missing_info) |-> SuggestionFor(missing_info[i])]

\* the suggestion put into the question, taken from the end of the list
EmbeddedSuggestionLast(suggestions) ==
    IF suggestions # <<>> THEN suggestions[Len(suggestions)] ELSE ""

\* the suggestion _generate_clarification_question puts into the question:
\* suggestions[0] if suggestions else ''
EmbeddedSuggestion(suggestions) ==
    IF suggestions # <<>> THEN suggestions[1] ELSE ""

\* _generate_clarification_question (the leading sentence of the question)
GenerateClarificationQuestion(missing_info) ==
    IF InSeq("file_specification", missing_info)
    THEN "Which file would you like to analyze?"
    ELSE IF InSeq("valid_file", missing_info)
    THEN "I couldn't find that file."
    ELSE IF InSeq("specific_file", missing_info)
    THEN "Multiple files match your request."
    ELSE IF InSeq("column_specification", missing_info)
    THEN "Which columns or variables would you like to analyze?"
    ELSE IF InSeq("valid_columns", missing_info)
    THEN "I couldn't find those columns."
    ELSE IF InSeq("statistical_method", missing_info)
    THEN "Which statistical test would you like to perform?"
    ELSE IF InSeq("visualization_type", missing_info)
    THEN "What type of plot would you like to create?"
    ELSE "Could you provide more details about what you'd like to do?"

\* the clarifier calls .lower() on every mentioned file (when there is an
\* available file to compare it with) and on every mentioned column (when a
\* schema column exists); a non-string entity makes that call raise
ClarifierRaises(self, intent, entities) ==
    \/ HasNonStr(entities.files) /\ self.available_files # <<>>
    \/ /\ intent \in {"data_visualization", "statistical_analysis",
                       "data_cleaning"}
       /\ HasNonStr(entities.columns)
       /\ SchemaColumns(self.file_schemas) # <<>>

NoClarification ==
    [status |-> "none", question |-> "none", embedded |-> "",
     suggestions |-> <<>>, missing_info |-> <<>>, confidence |-> 0]

\* check_clarification_needed whose status looks at the file check only
CheckClarificationNeededFileOnly(self, intent, entities, session) ==
    IF CheckFileSpecification(self, entities, session) # <<>>
    THEN [status |-> "clarification_needed",
          question |-> GenerateClarificationQuestion(
                           MissingInfo(self, intent, entities, session)),
          embedded |-> EmbeddedSuggestion(Suggestions(
                           MissingInfo(self, intent, entities, session))),
          suggestions |-> Suggestions(
                           MissingInfo(self, intent, entities, session)),
          missing_info |-> MissingInfo(self, intent, entities, session),
          confidence |-> 80]
    ELSE [status |-> "ready", question |-> "none", embedded |-> "",
          suggestions |-> <<>>,
          missing_info |-> MissingInfo(self, intent, entities, session),
          confidence |-> 100]

\* check_clarification_needed (ClarificationResult's defaults: no question,
\* missing_info [], confidence 1.0)
CheckClarificationNeeded(self, intent, entities, session) ==
    IF MissingInfo(self, intent, entities, session) # <<>>
    THEN [status |-> "clarification_needed",
          question |-> GenerateClarificationQuestion(
                           MissingInfo(self, intent, entities, session)),
          embedded |-> EmbeddedSuggestion(Suggestions(
                           MissingInfo(self, intent, entities, session))),
          suggestions |-> Suggestions(
                           MissingInfo(self, intent, entities, session)),
          missing_info |-> MissingInfo(self, intent, entities, session),
          confidence |-> 80]
    ELSE [status |-> "ready", question |-> "none", embedded |-> "",
          suggestions |-> <<>>, missing_info |-> <<>>, confidence |-> 100]

\* ------------------------------------------------------------- retriever
max_results == 3

AnyMatch(texts, target) ==
    \E i \in 1..Len(texts): Substr(Lower(texts[i]), Lower(target))

CountMatches(texts, target) ==
    Cardinality({i \in 1..Len(texts): Substr(Lower(texts[i]), Lower(target))})

\* _apply_entity_filters whose column filter runs over all the documents
\* instead of over the file-filtered ones
ApplyEntityFiltersColumnsOnAll(docs, entities) ==
    LET by_file == SelectSeq(docs,
                     LAMBDA d: AnyMatch(entities.files, d.file_name))
        filtered == IF entities.files # <<>> /\ by_file # <<>>
                    THEN by_file ELSE docs
        by_column == SelectSeq(docs,
                       LAMBDA d: AnyMatch(entities.columns, d.columns))
    IN  IF entities.columns # <<>> /\ by_column # <<>>
        THEN by_column ELSE filtered

\* _apply_entity_filters: narrow by file entities (all documents are kept
\* when none matches), then by column entities (kept when none matches)
ApplyEntityFilters(docs, entities) ==
    LET by_file == SelectSeq(docs,
                     LAMBDA d: AnyMatch(entities.files, d.file_name))
        filtered == IF entities.files # <<>> /\ by_file # <<>>
                    THEN by_file ELSE docs
        by_column == SelectSeq(filtered,
                       LAMBDA d: AnyMatch(entities.columns, d.columns))
    IN  IF entities.columns # <<>> /\ by_column # <<>>
        THEN by_column ELSE filtered

\* score of one document in _rank_documents (the vector store's metadata
\* has no modified_date, so no recency bonus)
DocScore(doc, entities) ==
    50 + 30 * CountMatches(entities.files, doc.file_name)
       + 20 * CountMatches(entities.columns, doc.columns)

RECURSIVE InsertByScore(_, _, _)
\* position of doc in a list already sorted by descending score, behind
\* every document with an equal score (list.sort is stable)
InsertByScore(doc, sorted, entities) ==
    IF sorted = <<>> THEN <<doc>>
    ELSE IF DocScore(Head(sorted), entities) >= DocScore(doc, entities)
         THEN <<Head(sorted)>> \o InsertByScore(doc, Tail(sorted), entities)
         ELSE <<doc>> \o sorted

RECURSIVE RankFrom(_, _, _)
RankFrom(docs, sorted, entities) ==
    IF docs = <<>> THEN sorted
    ELSE RankFrom(Tail(docs), InsertByScore(Head(docs), sorted, entities),
                  entities)

\* _rank_documents
RankDocuments(docs, entities) == RankFrom(docs, <<>>, entities)

\* ranked_docs[:max_results]
Truncate(docs, n) == SubSeq(docs, 1, IF Len(docs) < n THEN Len(docs) ELSE n)

RECURSIVE SumMatches(_, _)
\* entity_matches of _calculate_retrieval_confidence
SumMatches(docs, entities) ==
    IF docs = <<>> THEN 0
    ELSE CountMatches(entities.files, Head(docs).file_name)
         + Cardinality({i \in 1..Len(entities.columns):
                          Substr(Lower(entities.columns[i]),
                                 Lower(Head(docs).columns))})
         + SumMatches(Tail(docs), entities)

\* _calculate_retrieval_confidence
CalculateRetrievalConfidence(docs, entities) ==
    LET total_entities == Len(entities.files) + Len(entities.columns)
                          + Len(entities.statistical_methods)
                          + Len(entities.visualization_types)
        entity_boost ==
            IF total_entities > 0
            THEN (Min(total_entities, SumMatches(docs, entities)) * 30)
                 \div total_entities
            ELSE 0
    IN  IF docs = <<>> THEN 0
        ELSE Min(100, 60 + entity_boost + (IF Len(docs) >= 2 THEN 10 ELSE 0))

\* the filters argument of retrieve_context: None, or a dictionary with a
\* file_type list (the vector store's metadata has neither file_size nor
\* modified_date, so the size and date filters never apply)
NoFilters == [present |-> FALSE, file_type |-> {}]
RetrieverFilters ==
    { NoFilters, [present |-> TRUE, file_type |-> {".csv"}],
      [present |-> TRUE, file_type |-> {".txt"}] }

\* os.path.splitext(file_path)[1].lower() on the paths of the model
Extension(file_path) ==
    IF file_path = "data/notes.txt" THEN ".txt" ELSE ".csv"

\* _apply_metadata_filters
ApplyMetadataFilters(docs, filters) ==
    SelectSeq(docs, LAMBDA d: Extension(d.file_path) \in filters.file_type)

\* retrieve_context without the cut of the ranked list
RetrieveContextUntruncated(found, entities, filters, n) ==
    LET filtered == ApplyEntityFilters(Truncate(found, 2 * n), entities)
        ranked == RankDocuments(
                      IF filters.present
                      THEN ApplyMetadataFilters(filtered, filters)
                      ELSE filtered, entities)
    IN  [documents |-> ranked,
         file_paths |-> [i \in 1..Len(ranked) |-> ranked[i].file_path],
         confidence |-> CalculateRetrievalConfidence(ranked, entities)]

\* retrieve_context(query, entities, filters, max_results=n) when
\* get_relevant_documents hands back found: the first 2n of them, entity
\* filters, metadata filters, ranking, the first n
RetrieveContext(found, entities, filters, n) ==
    LET filtered == ApplyEntityFilters(Truncate(found, 2 * n), entities)
        ranked == RankDocuments(
                      IF filters.present
                      THEN ApplyMetadataFilters(filtered, filters)
                      ELSE filtered, entities)
        final == Truncate(ranked, n)
    IN  [documents |-> final,
         file_paths |-> [i \in 1..Len(final) |-> final[i].file_path],
         confidence |-> CalculateRetrievalConfidence(final, entities)]

\* retrieve_context as run_query calls it: the documents returned for a
\* search result
RetrieveDocuments(found, entities) ==
    RetrieveContext(found, entities, NoFilters, max_results).documents

\* .lower() called on every file and column entity, documents or not
RetrieverRaisesEagerly(found, entities) ==
    HasNonStr(entities.files) \/ HasNonStr(entities.columns)

\* .lower() is called on every file and column entity as soon as there is a
\* document to compare it with (_apply_entity_filters, _rank_documents)
RetrieverRaises(found, entities) ==
    /\ found # <<>>
    /\ HasNonStr(entities.files) \/ HasNonStr(entities.columns)

FilePaths(docs) == {docs[i].file_path : i \in 1..Len(docs)}

\* ------------------------------------------------------------- executor
\* what the generated code does when exec() runs it
CodeKinds == {"none", "result", "raises", "exit", "loops"}

\* completion text: its prose and the code block it embeds
LlmResponses ==
    { [prose |-> "answer", code |-> k] : k \in CodeKinds }

\* _query_llm's except branch: the text returned when the call fails
LlmErrorText ==
    [prose |-> "I encountered an error while processing your request",
     code |-> "none"]

NoLlmResponse == [prose |-> "none", code |-> "none"]

\* Executor.timeout (seconds); stored by __init__, read nowhere
timeout == 30

\* _execute_code_safely followed by _format_execution_result, for code whose
\* exec() returns or raises an Exception
FormatExecution(code) ==
    IF code = "result" THEN "Execution successful"
    ELSE IF code = "raises" THEN "Execution failed"
    ELSE "none"

NoFormatted == [message |-> "none", code |-> "none",
                execution_result |-> "none"]

\* process_llm_response, for a text whose code (if any) returns or raises
\* an Exception
ProcessLlmResponse(text) ==
    [message |-> text.prose, code |-> text.code,
     execution_result |-> FormatExecution(text.code)]

\* a name of the namespace after exec(): not bound, bound to None, or bound
\* to a value
PyUnset == [kind |-> "unset", v |-> 0]
PyNone == [kind |-> "None", v |-> 0]
PyInt(n) == [kind |-> "int", v |-> n]
PyDataFrame == [kind |-> "DataFrame", v |-> 0]

\* str(result)[:1000] for the integers used here, and the text written for
\* a DataFrame
ResultStr(value) ==
    IF value.kind = "DataFrame" THEN "DataFrame with shape (2, 3):"
    ELSE IF value.kind = "None" THEN "None"
    ELSE IF value.v = 42 THEN "42"
    ELSE IF value.v = 5 THEN "5"
    ELSE "7"

\* the names looked up after exec(), in the order of the lookup
ResultVars == <<"result", "output", "answer", "df">>

NoProgram ==
    [result |-> PyUnset, output |-> PyUnset, answer |-> PyUnset,
     df |-> PyUnset, stdout |-> "", raises |-> FALSE]

\* generated programs: what they leave bound to the four names and what
\* they print, for those that return, and programs that raise an Exception
\* (before or after binding result)
Programs ==
    [result : {PyUnset, PyNone, PyInt(42)},
     output : {PyUnset, PyNone, PyInt(5)},
     answer : {PyUnset, PyInt(7)},
     df : {PyUnset, PyDataFrame},
     stdout : {"", "printed"},
     raises : {FALSE}]
    \cup { [NoProgram EXCEPT !.raises = TRUE, !.result = r] :
             r \in {PyUnset, PyInt(42)} }

\* how a code block is opened: three backticks followed by python and a
\* newline, by a newline, or by python alone (the three code_patterns)
Fences == {"python, newline", "newline", "python"}

\* completion texts: prose, and a program inside a fenced block, or prose
\* without any code
ExecutorResponses ==
    {[fence |-> "none", program |-> NoProgram]}
    \cup [fence : Fences, program : Programs]

\* _extract_code_from_response: the body of the first fenced block (each
\* of the three patterns matches its fence), None without one
ExtractCodeFromResponse(response) ==
    IF response.fence \in Fences
    THEN [present |-> TRUE, program |-> response.program]
    ELSE [present |-> FALSE, program |-> NoProgram]

\* lines of a completion text without a fenced block: prose, prose that
\* happens to hold a code-like token, code with and without such a token, a
\* Python comment, an empty line, a line opened by two slashes
ResponseLines ==
    {"This loads the data.", "First import the data like this:",
     "import pandas as pd", "x = 1", "# load the data", "", "// end"}

\* any(keyword in stripped for keyword in ['import ', 'def ', 'pd.',
\* 'plt.', 'sns.', 'result = '])
HasKeyword(line) ==
    line \in {"First import the data like this:", "import pandas as pd"}

IsBlank(line) == line = ""
StartsWithHash(line) == line = "# load the data"
StartsWithSlashes(line) == line = "// end"

RECURSIVE ScanLines(_, _, _, _)
\* the loop of the fallback over the lines from the i-th on: in_code_section
\* is set by a line with a keyword; inside the section every non-empty line
\* that opens with neither # nor // is appended, so is an empty line and
\* a # line, and a // line ends the loop
ScanLines(lines, i, in_code_section, code_lines) ==
    IF i > Len(lines) THEN code_lines
    ELSE LET line == lines[i]
             inside == in_code_section \/ HasKeyword(line)
         IN  IF ~inside THEN ScanLines(lines, i + 1, FALSE, code_lines)
             ELSE IF /\ ~IsBlank(line) /\ ~StartsWithHash(line)
                     /\ ~StartsWithSlashes(line)
             THEN ScanLines(lines, i + 1, TRUE, Append(code_lines, line))
             ELSE IF IsBlank(line)
             THEN ScanLines(lines, i + 1, TRUE, Append(code_lines, line))
             ELSE IF StartsWithHash(line)
             THEN ScanLines(lines, i + 1, TRUE, Append(code_lines, line))
             ELSE code_lines

RECURSIVE StripLines(_)
\* str.strip() on the joined lines: empty lines at either end are dropped
StripLines(lines) ==
    IF lines = <<>> THEN <<>>
    ELSE IF IsBlank(Head(lines)) THEN StripLines(Tail(lines))
    ELSE IF IsBlank(lines[Len(lines)])
    THEN StripLines(SubSeq(lines, 1, Len(lines) - 1))
    ELSE lines

\* _extract_code_from_response on a text without a fenced block: the lines
\* of the code it returns (none: it returns None)
ExtractFallback(lines) == StripLines(ScanLines(lines, 1, FALSE, <<>>))

RECURSIVE FirstBound(_, _)
\* the loop over the four names: the value of the first that is in
\* local_vars (it stops there, whatever the value), None if none is
FirstBound(program, i) ==
    IF i > Len(ResultVars) THEN PyNone
    ELSE IF program[ResultVars[i]] # PyUnset THEN program[ResultVars[i]]
    ELSE FirstBound(program, i + 1)

\* _execute_code_safely: the ExecutionResult (success with the output for
\* a program that returns, failure with the error text for one that
\* raises)
ExecuteCodeSafely(program) ==
    LET result == FirstBound(program, 1)
    IN  IF program.raises
        THEN [success |-> FALSE, output |-> "", error |-> "Exception"]
        ELSE [success |-> TRUE,
              output |-> IF result # PyNone THEN ResultStr(result)
                         ELSE program.stdout,
              error |-> ""]

\* _format_execution_result (no plots, exports or warnings): the lines of
\* the text
FormatExecutionResult(exec_result) ==
    IF ~exec_result.success
    THEN <<"Execution failed:", exec_result.error>>
    ELSE (IF exec_result.output # ""
          THEN <<"Execution successful:", exec_result.output>> ELSE <<>>)
         \o <<"Execution time">>

\* process_llm_response: the code it extracts, what executing it gives and
\* the execution_result it reports (None without code)
ProcessResponse(response) ==
    LET code == ExtractCodeFromResponse(response)
        exec_result == ExecuteCodeSafely(code.program)
    IN  [code |-> code.present,
         output |-> IF code.present THEN exec_result.output ELSE "",
         execution_result |->
             IF code.present THEN FormatExecutionResult(exec_result)
             ELSE <<>>]

\* exec() is left by an exception that "except Exception" does not catch
\* (SystemExit from exit(), KeyboardInterrupt)
ExecEscapes(code) == code = "exit"

\* exec() never returns
ExecDiverges(code) == code = "loops"

\* -------------------------------------------------------- prompt builder
\* the intents with a template of their own; every other intent gets the
\* default template
TemplateIntents ==
    {"data_visualization", "statistical_analysis", "data_cleaning",
     "file_summary"}

\* the template build_prompt selects
SelectTemplate(intent) ==
    IF intent \in TemplateIntents THEN intent ELSE "default"

\* the templates whose user_template has a {conversation_context} field
ConversationTemplates == {"statistical_analysis", "default"}

\* UserSession.get_conversation_context: conversation_history[-n:]
GetConversationContext(history, last_n_turns) ==
    SubSeq(history,
           IF Len(history) > last_n_turns
           THEN Len(history) - last_n_turns + 1 ELSE 1,
           Len(history))

\* what _build_conversation_context writes for one turn
TurnSummary(turn) ==
    [user_query |-> turn.user_query, ai_response |-> turn.ai_response,
     code_generated |-> turn.code_generated # "none"]

\* _build_conversation_context: the summaries of the last three turns that
\* have a response (none: "No previous conversation history.")
BuildConversationContext(history) ==
    LET recent == SelectSeq(GetConversationContext(history, 3),
                            LAMBDA t: t.ai_response \notin {"none", ""})
    IN  [i \in 1..Len(recent) |-> TurnSummary(recent[i])]

\* the text _build_conversation_context returns: the notice when there is no
\* turn to look at, else the summaries joined (an empty text when every
\* recent turn is skipped)
ConversationContextSection(history) ==
    [notice |-> GetConversationContext(history, 3) = <<>>,
     parts |-> BuildConversationContext(history)]

NoPrompt == [template |-> "none", context |-> "none", conversation |-> <<>>]

\* _build_context_section: the notice that stands for the file information
\* when no document was retrieved (otherwise the text starts with the
\* first file)
BuildContextSection(documents) ==
    IF documents = <<>>
    THEN "No specific files found. Please specify which data to analyze."
    ELSE "File 1:"

\* build_prompt: the template, and the conversation-context section as it
\* appears in the rendered user prompt (str.format drops the context when
\* the template has no field for it)
BuildPromptFor(intent, documents, history) ==
    [template |-> SelectTemplate(intent),
     context |-> BuildContextSection(documents),
     conversation |-> IF SelectTemplate(intent) \in ConversationTemplates
                      THEN BuildConversationContext(history) ELSE <<>>]

\* ------------------------------------------------------------- session
\* UserSession.start_new_turn; turn_id (a uuid4) is the number of the call
\* that starts the turn
start_new_turn(turn_id, user_query) ==
    [NoTurn EXCEPT !.turn_id = turn_id, !.user_query = user_query]

\* the fields complete_turn sets on the in-flight turn
Completed(turn, args) ==
    [turn EXCEPT !.intent = args.intent,
                 !.ai_response = args.ai_response,
                 !.code_generated = args.code_generated,
                 !.execution_result = args.execution_result,
                 !.clarification_needed = args.clarification_needed,
                 !.clarification_question = args.clarification_question]

\* complete_turn without its "No active conversation turn" check
complete_turn_unchecked(turn, history, args) ==
    [raised |-> FALSE,
     history |-> Append(history,
         Completed(turn, args)),
     current_turn |-> NoTurn]

\* complete_turn that forgets "self.current_turn = None"
complete_turn_keeps_marker(turn, history, args) ==
    IF turn = NoTurn
    THEN [raised |-> TRUE, history |-> history, current_turn |-> turn]
    ELSE [raised |-> FALSE,
          history |-> Append(history,
              Completed(turn, args)),
          current_turn |-> turn]

\* complete_turn that inserts the turn at the front of the history
complete_turn_prepends(turn, history, args) ==
    IF turn = NoTurn
    THEN [raised |-> TRUE, history |-> history, current_turn |-> turn]
    ELSE [raised |-> FALSE,
          history |-> <<Completed(turn, args)>>
                      \o history,
          current_turn |-> NoTurn]

\* the history as seen after complete_turn has set the fields of the turn
\* object: an entry that is the same ConversationTurn object (same turn_id)
\* shows the new field values, every other entry is untouched
WrittenThrough(turn, history, args) ==
    [i \in DOMAIN history |->
        IF history[i].turn_id = turn.turn_id
        THEN Completed(turn, args)
        ELSE history[i]]

\* complete_turn that leaves the appended object as the in-flight turn
complete_turn_keeps_reference(turn, history, args) ==
    IF turn = NoTurn
    THEN [raised |-> TRUE, history |-> history, current_turn |-> turn]
    ELSE [raised |-> FALSE,
          history |-> Append(WrittenThrough(turn, history, args),
              Completed(turn, args)),
          current_turn |-> Completed(turn, args)]

\* UserSession.complete_turn on a session with the given in-flight turn and
\* history
complete_turn(turn, history, args) ==
    IF turn = NoTurn
    THEN [raised |-> TRUE, history |-> history, current_turn |-> turn]
    ELSE [raised |-> FALSE,
          history |-> Append(WrittenThrough(turn, history, args),
              Completed(turn, args)),
          current_turn |-> NoTurn]

\* a focus update that keeps only the files of the latest retrieval
add_file_focus_latest_only(focused, docs) == FilePaths(docs)

\* UserSession.add_file_focus for every retrieved document
add_file_focus(focused, docs) == focused \cup FilePaths(docs)

\* _get_or_create_session that never looks into the store
GetOrCreateSessionAlwaysNew(session_id, c) ==
    [id |-> IF session_id # NoId THEN session_id ELSE NumSessions + c,
     key |-> c, is_new |-> TRUE]

\* _get_or_create_session that hands an unknown ID the UserSession already
\* stored under another ID
GetOrCreateSessionShared(session_id, c) ==
    LET id == IF session_id # NoId THEN session_id ELSE NumSessions + c
        stored == {i \in StoreIds : sessions[i] # NoKey}
    IN  IF sessions[id] # NoKey
        THEN [id |-> id, key |-> sessions[id], is_new |-> FALSE]
        ELSE IF stored # {}
        THEN [id |-> id, key |-> sessions[CHOOSE i \in stored: TRUE],
              is_new |-> FALSE]
        ELSE [id |-> id, key |-> c, is_new |-> TRUE]

\* AssistantAgent._get_or_create_session for call c: the UserSession it
\* returns, the ID it is stored under, and whether it is a new UserSession
\* (an unknown ID, or no ID: then the ID is a fresh uuid4)
GetOrCreateSession(session_id, c) ==
    IF session_id # NoId /\ sessions[session_id] # NoKey
    THEN [id |-> session_id, key |-> sessions[session_id], is_new |-> FALSE]
    ELSE [id |-> IF session_id # NoId THEN session_id ELSE NumSessions + c,
          key |-> c, is_new |-> TRUE]

\* _calculate_overall_confidence
CalculateOverallConfidence(intent_conf, entity_conf, retrieval_conf) ==
    Min(100, (3 * intent_conf + 3 * entity_conf + 4 * retrieval_conf)
             \div 10)

\* ------------------------------------------------------------- responses
NoResponse ==
    [kind |-> "none", message |-> "none", intent |-> "none",
     clarification_needed |-> FALSE, confidence |-> 0]

\* Executor.format_error_response wrapped in the AgentResponse of the
\* except branch of run_query
ErrorResponse ==
    [kind |-> "error",
     message |-> "I encountered an error while processing your request",
     intent |-> "error", clarification_needed |-> FALSE, confidence |-> 0]

\* run_query left by an exception it does not catch: no AgentResponse
RaisedResponse == [NoResponse EXCEPT !.kind = "raised"]

\* ------------------------------------------------- one run_query invocation
NoCall ==
    [pc |-> "idle", session_id |-> NoId, session |-> 0, query |-> "none",
     intent_result |-> NoIntent, entities |-> NoEntities,
     clarification |-> NoClarification, found |-> <<>>,
     documents |-> <<>>,
     retrieval_confidence |-> 0, llm_response |-> NoLlmResponse,
     llm_failed |-> FALSE, prompt |-> NoPrompt,
     formatted |-> NoFormatted, loop_phase |-> 0, error |-> "none",
     response |-> NoResponse, stages |-> <<>>,
     before |-> [history |-> <<>>, focused |-> {}]]

\* the locals of a call are gone once run_query has returned or raised
Returned(call, pc, stage, response) ==
    [NoCall EXCEPT !.pc = pc, !.session_id = call.session_id,
                   !.session = call.session, !.query = call.query,
                   !.error = call.error, !.before = call.before,
                   !.llm_failed = call.llm_failed,
                   !.stages = IF stage = "none" THEN call.stages
                              ELSE Append(call.stages, stage),
                   !.response = response]

Init ==
    /\ sessions = [id \in StoreIds |-> NoKey]
    /\ conversation_history = [k \in SessionKeys |-> <<>>]
    /\ current_turn = [k \in SessionKeys |-> NoTurn]
    /\ focused_files = [k \in SessionKeys |-> {}]
    /\ running = 0
    /\ ncalls = 0
    /\ calls = [c \in Calls |-> NoCall]
    /\ probe = NoProbe

\* the session object call c works on
SessionOf(c) == calls[c].session

\* run_query, step 1: _get_or_create_session and start_new_turn.  A request
\* is taken up when the event loop is free.
StartCall(session_id, query) ==
    /\ running = 0
    /\ ncalls < MaxCalls
    /\ LET c == ncalls + 1
           got == GetOrCreateSession(session_id, c)
           k == got.key
           history == IF got.is_new THEN <<>> ELSE conversation_history[k]
           focused == IF got.is_new THEN {} ELSE focused_files[k]
       IN  /\ ncalls' = c
           /\ running' = c
           /\ sessions' = [sessions EXCEPT ![got.id] = k]
           /\ conversation_history' =
                [conversation_history EXCEPT ![k] = history]
           /\ focused_files' = [focused_files EXCEPT ![k] = focused]
           /\ current_turn' =
                [current_turn EXCEPT ![k] = start_new_turn(c, query)]
           /\ calls' = [calls EXCEPT ![c] =
                [NoCall EXCEPT !.pc = "intent", !.session_id = session_id,
                               !.session = k, !.query = query,
                               !.stages = <<"START">>,
                               !.before = [history |-> history,
                                           focused |-> focused]]]
           /\ UNCHANGED probe

\* step 2: classify_intent (never raises: its model call is guarded)
ClassifyIntent(c) ==
    /\ running = c
    /\ calls[c].pc = "intent"
    /\ \E r \in IntentResults:
         calls' = [calls EXCEPT ![c].pc = "entities",
                                ![c].intent_result = r,
                                ![c].stages = Append(@, "INTENT")]
    /\ UNCHANGED <<sessions, conversation_history, current_turn,
                   focused_files, running, ncalls, probe>>

\* step 3: extract_entities and the merge into combined_entities
ExtractEntities(c) ==
    /\ running = c
    /\ calls[c].pc = "entities"
    /\ \E e \in EntityResults:
         calls' = [calls EXCEPT ![c].pc = "clarify",
                                ![c].entities = e,
                                ![c].stages = Append(@, "ENTITIES")]
    /\ UNCHANGED <<sessions, conversation_history, current_turn,
                   focused_files, running, ncalls, probe>>

\* step 4 with the status test lost: the pipeline goes on to retrieval
\* whatever the clarifier returned
ClarifyCheckIgnoresStatus(c) ==
    /\ running = c
    /\ calls[c].pc = "clarify"
    /\ LET intent == calls[c].intent_result.primary_intent
           result == CheckClarificationNeeded(AppClarifier, intent,
                         calls[c].entities,
                         SessionArg(focused_files[SessionOf(c)]))
       IN  calls' =
             IF ClarifierRaises(AppClarifier, intent, calls[c].entities)
             THEN [calls EXCEPT ![c].pc = "except",
                                ![c].error = "AttributeError",
                                ![c].stages = Append(@, "CLARIFY_CHECK")]
             ELSE [calls EXCEPT ![c].pc = "retrieve",
                                ![c].clarification = result,
                                ![c].stages = Append(@, "CLARIFY_CHECK")]
    /\ UNCHANGED <<sessions, conversation_history, current_turn,
                   focused_files, running, ncalls, probe>>

\* step 4: check_clarification_needed
ClarifyCheck(c) ==
    /\ running = c
    /\ calls[c].pc = "clarify"
    /\ LET intent == calls[c].intent_result.primary_intent
           result == CheckClarificationNeeded(AppClarifier, intent,
                         calls[c].entities,
                         SessionArg(focused_files[SessionOf(c)]))
       IN  calls' =
             IF ClarifierRaises(AppClarifier, intent, calls[c].entities)
             THEN [calls EXCEPT ![c].pc = "except",
                                ![c].error = "AttributeError",
                                ![c].stages = Append(@, "CLARIFY_CHECK")]
             ELSE [calls EXCEPT
                     ![c].pc = IF result.status = "clarification_needed"
                               THEN "clarification" ELSE "retrieve",
                     ![c].clarification = result,
                     ![c].stages = Append(@, "CLARIFY_CHECK")]
    /\ UNCHANGED <<sessions, conversation_history, current_turn,
                   focused_files, running, ncalls, probe>>

\* the clarification branch: complete_turn with the question, then return
ClarificationReturn(c) ==
    /\ running = c
    /\ calls[c].pc = "clarification"
    /\ LET k == SessionOf(c)
           done == complete_turn(current_turn[k], conversation_history[k],
                       [intent |-> calls[c].intent_result.primary_intent,
                        ai_response |-> calls[c].clarification.question,
                        code_generated |-> "none",
                        execution_result |-> "none",
                        clarification_needed |-> TRUE,
                        clarification_question |->
                            calls[c].clarification.question])
       IN  IF done.raised
           THEN /\ calls' = [calls EXCEPT ![c].pc = "except",
                                          ![c].error = "ValueError"]
                /\ UNCHANGED <<conversation_history, current_turn, running>>
           ELSE /\ conversation_history' =
                     [conversation_history EXCEPT ![k] = done.history]
                /\ current_turn' =
                     [current_turn EXCEPT ![k] = done.current_turn]
                /\ running' = 0
                /\ calls' = [calls EXCEPT ![c] =
                     Returned(calls[c], "done", "CLARIFICATION_NEEDED",
                        [kind |-> "clarification",
                         message |-> calls[c].clarification.question,
                         intent |-> calls[c].intent_result.primary_intent,
                         clarification_needed |-> TRUE,
                         confidence |-> calls[c].clarification.confidence])]
    /\ UNCHANGED <<sessions, focused_files, ncalls, probe>>

\* step 5: retrieve_context
Retrieve(c) ==
    /\ running = c
    /\ calls[c].pc = "retrieve"
    /\ \E found \in SearchResults:
         calls' =
           IF RetrieverRaises(found, calls[c].entities)
           THEN [calls EXCEPT ![c].pc = "except",
                              ![c].found = found,
                              ![c].error = "AttributeError",
                              ![c].stages = Append(@, "RETRIEVE")]
           ELSE [calls EXCEPT
                   ![c].pc = "focus",
                   ![c].found = found,
                   ![c].documents =
                       RetrieveDocuments(found, calls[c].entities),
                   ![c].retrieval_confidence =
                       CalculateRetrievalConfidence(
                           RetrieveDocuments(found, calls[c].entities),
                           calls[c].entities),
                   ![c].stages = Append(@, "RETRIEVE")]
    /\ UNCHANGED <<sessions, conversation_history, current_turn,
                   focused_files, running, ncalls, probe>>

\* the loop over retrieval_result.documents calling add_file_focus
UpdateFocus(c) ==
    /\ running = c
    /\ calls[c].pc = "focus"
    /\ focused_files' =
         [focused_files EXCEPT ![SessionOf(c)] =
              add_file_focus(@, calls[c].documents)]
    /\ calls' = [calls EXCEPT ![c].pc = "prompt",
                              ![c].found = <<>>,
                              ![c].stages = Append(@, "FOCUS")]
    /\ UNCHANGED <<sessions, conversation_history, current_turn, running,
                   ncalls, probe>>

\* step 6: build_prompt
BuildPrompt(c) ==
    /\ running = c
    /\ calls[c].pc = "prompt"
    /\ calls' = [calls EXCEPT
         ![c].pc = "llm",
         ![c].prompt = BuildPromptFor(
                           calls[c].intent_result.primary_intent,
                           calls[c].documents,
                           conversation_history[SessionOf(c)]),
         ![c].stages = Append(@, "PROMPT")]
    /\ UNCHANGED <<sessions, conversation_history, current_turn,
                   focused_files, running, ncalls, probe>>

\* step 7: await self._query_llm(prompt): the prompt is handed to the
\* completion service; the call is suspended while the
\* completion service works in the thread pool, and the event loop is free
QueryLlm(c) ==
    /\ running = c
    /\ calls[c].pc = "llm"
    /\ running' = 0
    /\ calls' = [calls EXCEPT ![c].pc = "llm_wait",
                              ![c].prompt = NoPrompt,
                              ![c].stages = Append(@, "COMPLETE")]
    /\ UNCHANGED <<sessions, conversation_history, current_turn,
                   focused_files, ncalls, probe>>

\* a resuming call that stores its session under its ID again
LlmReturnStoresSession(c) ==
    /\ running = 0
    /\ calls[c].pc = "llm_wait"
    /\ running' = c
    /\ \E text \in LlmResponses \cup {LlmErrorText}:
         calls' = [calls EXCEPT ![c].pc = "execute",
                                ![c].llm_failed = (text = LlmErrorText),
                                ![c].llm_response = text]
    /\ sessions' = IF calls[c].session_id # NoId
                   THEN [sessions EXCEPT ![calls[c].session_id] = SessionOf(c)]
                   ELSE sessions
    /\ UNCHANGED <<conversation_history, current_turn,
                   focused_files, ncalls, probe>>

\* the completion service answers, or fails and _query_llm returns its
\* error text; the call resumes when the event loop is free
LlmReturn(c) ==
    /\ running = 0
    /\ calls[c].pc = "llm_wait"
    /\ running' = c
    /\ \E text \in LlmResponses \cup {LlmErrorText}:
         calls' = [calls EXCEPT ![c].pc = "execute",
                                ![c].llm_failed = (text = LlmErrorText),
                                ![c].llm_response = text]
    /\ UNCHANGED <<sessions, conversation_history, current_turn,
                   focused_files, ncalls, probe>>

\* step 8: process_llm_response returns
Execute(c) ==
    /\ running = c
    /\ calls[c].pc = "execute"
    /\ ~ExecEscapes(calls[c].llm_response.code)
    /\ ~ExecDiverges(calls[c].llm_response.code)
    /\ calls' = [calls EXCEPT
         ![c].pc = "complete",
         ![c].formatted = ProcessLlmResponse(calls[c].llm_response),
         ![c].stages = Append(@, "EXECUTE")]
    /\ UNCHANGED <<sessions, conversation_history, current_turn,
                   focused_files, running, ncalls, probe>>

\* step 8, the generated code raises SystemExit or KeyboardInterrupt:
\* neither _execute_code_safely nor run_query catches it ("except
\* Exception"), so run_query itself raises
ExecuteEscapes(c) ==
    /\ running = c
    /\ calls[c].pc = "execute"
    /\ ExecEscapes(calls[c].llm_response.code)
    /\ running' = 0
    /\ calls' = [calls EXCEPT ![c] =
         Returned([calls[c] EXCEPT !.error = "SystemExit"], "raised",
                  "EXECUTE", RaisedResponse)]
    /\ UNCHANGED <<sessions, conversation_history, current_turn,
                   focused_files, ncalls, probe>>

\* step 8, the generated code does not terminate: exec() runs it on the
\* event loop's thread and nothing reads Executor.timeout, so the program
\* goes on from one phase to the next and the event loop stays taken
ExecuteLoops(c) ==
    /\ running = c
    /\ calls[c].pc = "execute"
    /\ ExecDiverges(calls[c].llm_response.code)
    /\ calls' = [calls EXCEPT
         ![c].loop_phase = (@ + 1) % (MaxLoopPhase + 1)]
    /\ UNCHANGED <<sessions, conversation_history, current_turn,
                   focused_files, running, ncalls, probe>>

\* the normal path's complete_turn, confidence and return
CompleteAndReturn(c) ==
    /\ running = c
    /\ calls[c].pc = "complete"
    /\ LET k == SessionOf(c)
           done == complete_turn(current_turn[k], conversation_history[k],
                       [intent |-> calls[c].intent_result.primary_intent,
                        ai_response |-> calls[c].formatted.message,
                        code_generated |-> calls[c].formatted.code,
                        execution_result |->
                            calls[c].formatted.execution_result,
                        clarification_needed |-> FALSE,
                        clarification_question |-> "none"])
       IN  IF done.raised
           THEN /\ calls' = [calls EXCEPT ![c].pc = "except",
                                          ![c].error = "ValueError"]
                /\ UNCHANGED <<conversation_history, current_turn, running>>
           ELSE /\ conversation_history' =
                     [conversation_history EXCEPT ![k] = done.history]
                /\ current_turn' =
                     [current_turn EXCEPT ![k] = done.current_turn]
                /\ running' = 0
                /\ calls' = [calls EXCEPT ![c] =
                     Returned(calls[c], "done", "END",
                        [kind |-> "normal",
                         message |-> calls[c].formatted.message,
                         intent |-> calls[c].intent_result.primary_intent,
                         clarification_needed |-> FALSE,
                         confidence |-> CalculateOverallConfidence(
                             calls[c].intent_result.confidence,
                             calls[c].entities.confidence,
                             calls[c].retrieval_confidence)])]
    /\ UNCHANGED <<sessions, focused_files, ncalls, probe>>

\* the except branch of run_query: the error response is returned; the
\* session is not touched
HandleError(c) ==
    /\ running = c
    /\ calls[c].pc = "except"
    /\ running' = 0
    /\ calls' = [calls EXCEPT ![c] =
         Returned(calls[c], "done", "none", ErrorResponse)]
    /\ UNCHANGED <<sessions, conversation_history, current_turn,
                   focused_files, ncalls, probe>>

\* AssistantAgent.clear_session, called by the DELETE endpoint (a coroutine
\* without an await: it runs when the event loop is free); an ID that is
\* not in the store is left alone
ClearSession(session_id) ==
    /\ running = 0
    /\ sessions[session_id] # NoKey
    /\ sessions' = [sessions EXCEPT ![session_id] = NoKey]
    /\ UNCHANGED <<conversation_history, current_turn, focused_files,
                   running, ncalls, calls, probe>>

Next ==
    \/ \E sid \in SessionIds \cup {NoId}, q \in Queries: StartCall(sid, q)
    \/ \E sid \in StoreIds: ClearSession(sid)
    \/ \E c \in Calls: ClassifyIntent(c)
    \/ \E c \in Calls: ExtractEntities(c)
    \/ \E c \in Calls: ClarifyCheck(c)
    \/ \E c \in Calls: ClarificationReturn(c)
    \/ \E c \in Calls: Retrieve(c)
    \/ \E c \in Calls: UpdateFocus(c)
    \/ \E c \in Calls: BuildPrompt(c)
    \/ \E c \in Calls: QueryLlm(c)
    \/ \E c \in Calls: LlmReturn(c)
    \/ \E c \in Calls: Execute(c)
    \/ \E c \in Calls: ExecuteEscapes(c)
    \/ \E c \in Calls: ExecuteLoops(c)
    \/ \E c \in Calls: CompleteAndReturn(c)
    \/ \E c \in Calls: HandleError(c)

Spec == Init /\ [][Next]_vars

\* run_query calls issued one after another: a call is made only after the
\* previous one has returned or raised
InFlight(c) == calls[c].pc \notin {"idle", "done", "raised"}

SeqStartCall(session_id, query) ==
    /\ \A c \in Calls: ~InFlight(c)
    /\ StartCall(session_id, query)

SeqNext ==
    \/ \E sid \in SessionIds \cup {NoId}, q \in Queries: SeqStartCall(sid, q)
    \/ \E sid \in StoreIds: ClearSession(sid)
    \/ \E c \in Calls: ClassifyIntent(c)
    \/ \E c \in Calls: ExtractEntities(c)
    \/ \E c \in Calls: ClarifyCheck(c)
    \/ \E c \in Calls: ClarificationReturn(c)
    \/ \E c \in Calls: Retrieve(c)
    \/ \E c \in Calls: UpdateFocus(c)
    \/ \E c \in Calls: BuildPrompt(c)
    \/ \E c \in Calls: QueryLlm(c)
    \/ \E c \in Calls: LlmReturn(c)
    \/ \E c \in Calls: Execute(c)
    \/ \E c \in Calls: ExecuteEscapes(c)
    \/ \E c \in Calls: ExecuteLoops(c)
    \/ \E c \in Calls: CompleteAndReturn(c)
    \/ \E c \in Calls: HandleError(c)

SeqSpec == Init /\ [][SeqNext]_vars

\* the event loop keeps running whatever is ready to run
FairSpec == Init /\ [][Next]_vars /\ WF_vars(Next)

\* ------------------------------------------------- components by themselves
\* the variables of the run_query pipeline
pipeline == <<sessions, conversation_history, current_turn, focused_files,
              running, ncalls, calls>>

\* entities handed to the clarifier: no file, one file (also in another
\* letter case), a text contained in both file names, an unknown file, the
\* two texts the patterns find in "... file lab_results.csv" (the name, and
\* the word after "file"), a non-string; with or without a column (known
\* to the schema or not), a method, a plot type
ClarifierEntities ==
    { [files |-> f, columns |-> c, statistical_methods |-> m,
       visualization_types |-> v, confidence |-> 0] :
        f \in { <<>>, <<"lab_results.csv">>, <<"Lab_Results.csv">>,
                <<"csv">>, <<"zzz.csv">>,
                <<"lab_results.csv", "lab_results">>, <<NonStr>> },
        c \in { <<>>, <<"glucose">>, <<"weight">> },
        m \in { <<>>, <<"t-test">> },
        v \in { <<>>, <<"histogram">> } }

ClarifierSessions ==
    { NoSession, SessionArg({}), SessionArg({"data/lab_results.csv"}) }

\* Clarifier.check_clarification_needed called on a clarifier
CallClarifier(self, intent, entities, session) ==
    /\ probe = NoProbe
    /\ probe' =
         [op |-> "check_clarification_needed", self |-> self,
          intent |-> intent, entities |-> entities, session |-> session,
          raised |-> ClarifierRaises(self, intent, entities),
          result |-> IF ClarifierRaises(self, intent, entities)
                     THEN NoClarification
                     ELSE CheckClarificationNeeded(self, intent, entities,
                                                   session)]
    /\ UNCHANGED pipeline

\* IntentClassifier.classify_intent called on a classifier whose model
\* behaves as llm
CallClassifier(query, llm) ==
    /\ probe = NoProbe
    /\ probe' = [op |-> "classify_intent", query |-> query, llm |-> llm,
                 rule_based |-> RuleBasedClassification(query),
                 invoked |-> LlmInvoked(query, llm),
                 llm_result |-> LlmBasedClassification(query, llm),
                 result |-> ClassifyIntentOf(query, llm)]
    /\ UNCHANGED pipeline

\* EntityExtractor.extract_entities called on an extractor whose spaCy pass
\* and model behave as nlp and llm
CallExtractor(query, nlp, context, llm) ==
    /\ probe = NoProbe
    /\ probe' = [op |-> "extract_entities", query |-> query, nlp |-> nlp,
                 context |-> context, llm |-> llm,
                 result |-> ExtractEntitiesOf(query, nlp, context, llm)]
    /\ UNCHANGED pipeline

\* entity lists handed to _merge_entities: up to MaxEntities entities, with
\* texts differing in letter case only, and equal and different
\* confidences under one key
MergeInputs ==
    UNION { [1..n -> { Entity(t, l, x) : t \in {"glucose", "Glucose", "age"},
                                          l \in {"columns", "files"},
                                          x \in {50, 80} }] :
            n \in 0..MaxEntities }

\* EntityExtractor._merge_entities called on a list, and once more on its
\* own result
CallMerge(entities) ==
    /\ probe = NoProbe
    /\ probe' = [op |-> "merge_entities", entities |-> entities,
                 result |-> MergeEntities(entities),
                 again |-> MergeEntities(MergeEntities(entities))]
    /\ UNCHANGED pipeline

MaxResults == 3          \* largest max_results given to the retriever
MaxLines == 3            \* lines of a completion text without a fence

RECURSIVE SeqsUpTo(_, _)
\* the sequences of at most n elements of a set
SeqsUpTo(set, n) ==
    IF n = 0 THEN {<<>>}
    ELSE SeqsUpTo(set, n - 1)
         \cup {Append(seq, x) : seq \in SeqsUpTo(set, n - 1), x \in set}

\* _extract_code_from_response called on a text without a fenced block
CallExtractFallback(lines) ==
    /\ probe = NoProbe
    /\ probe' = [op |-> "extract_code", lines |-> lines,
                 result |-> ExtractFallback(lines)]
    /\ UNCHANGED pipeline

\* what get_relevant_documents hands back: up to three documents in any
\* order of similarity (nothing also when the search fails)
RetrieverCandidates ==
    { <<>>, <<DocLab>>, <<DocDemo>>, <<DocNotes>>,
      <<DocDemo, DocLab>>, <<DocLab, DocNotes>>, <<DocNotes, DocDemo>>,
      <<DocDemo, DocNotes, DocLab>>, <<DocLab, DocDemo, DocNotes>>,
      <<DocNotes, DocLab, DocDemo>> }

RetrieverEntities ==
    { [NoEntities EXCEPT !.files = f, !.columns = c,
                         !.statistical_methods = m] :
        f \in { <<>>, <<"lab_results.csv">>, <<"csv">>, <<"zzz.csv">>,
                <<NonStr>> },
        c \in { <<>>, <<"glucose">>, <<"age">>, <<"weight">> },
        m \in { <<>>, <<"t-test">> } }

\* Retriever.retrieve_context called on a retriever whose vector search
\* hands back found
CallRetriever(found, entities, filters, n) ==
    /\ probe = NoProbe
    /\ probe' =
         [op |-> "retrieve_context", found |-> found,
          candidates |-> Truncate(found, 2 * n),
          entities |-> entities, filters |-> filters, max_results |-> n,
          raised |-> RetrieverRaises(Truncate(found, 2 * n), entities),
          result |-> RetrieveContext(found, entities, filters, n)]
    /\ UNCHANGED pipeline

\* Executor.process_llm_response called on a completion text
CallExecutor(response) ==
    /\ probe = NoProbe
    /\ probe' = [op |-> "process_llm_response", response |-> response,
                 result |-> ProcessResponse(response)]
    /\ UNCHANGED pipeline

MaxOps == 3              \* method calls made on one UserSession

\* FileContext.applied_filters of a file in focus, by filter name
FilterNames == {"sex", "age_group"}
FilterValues == {"F", "M"}
NoValue == "no value"
EmptyFilters == [n \in FilterNames |-> NoValue]
\* the entry of a path that is not a key of focused_files, and the
\* FileContext that add_file_focus constructs
NotInFocus == [in_focus |-> FALSE, applied_filters |-> EmptyFilters]
NewFileContext == [in_focus |-> TRUE, applied_filters |-> EmptyFilters]
FocusPaths == {DocLab.file_path, DocDemo.file_path}

\* UserSession.focused_files of a new session
NoFocus == [file_path \in FocusPaths |-> NotInFocus]

\* UserSession.add_file_focus(file_path, columns): the entry of the path is
\* set to a newly constructed FileContext
AddFileFocus(focused, file_path) ==
    [focused EXCEPT ![file_path] = NewFileContext]

\* UserSession.apply_file_filter(file_path, filter_name, filter_value)
ApplyFileFilter(focused, file_path, filter_name, filter_value) ==
    IF focused[file_path].in_focus
    THEN [focused EXCEPT
            ![file_path].applied_filters[filter_name] = filter_value]
    ELSE focused

\* UserSession.clear_file_focus()
ClearFileFocus(focused) == NoFocus

\* the focus and filter methods of UserSession with their arguments
SessionMethods ==
    [op : {"add_file_focus"}, file_path : FocusPaths]
    \cup [op : {"apply_file_filter"}, file_path : FocusPaths,
          filter_name : FilterNames, filter_value : FilterValues]
    \cup [op : {"clear_file_focus"}]

RECURSIVE RunSessionMethods(_, _, _)
\* focused_files after the method calls ops[i], ops[i+1], ... made in turn
RunSessionMethods(ops, i, focused) ==
    IF i > Len(ops) THEN focused
    ELSE RunSessionMethods(ops, i + 1,
            CASE ops[i].op = "add_file_focus" ->
                    AddFileFocus(focused, ops[i].file_path)
              [] ops[i].op = "apply_file_filter" ->
                    ApplyFileFilter(focused, ops[i].file_path,
                                    ops[i].filter_name, ops[i].filter_value)
              [] OTHER -> ClearFileFocus(focused))

\* a new UserSession on which focus and filter methods are called in turn
CallSessionMethods(ops) ==
    /\ probe = NoProbe
    /\ probe' = [op |-> "session_methods", ops |-> ops,
                 result |-> RunSessionMethods(ops, 1, NoFocus)]
    /\ UNCHANGED pipeline

MaxTurns == 4            \* completed turns of the session a prompt is built for

\* what a completed turn holds of the reply: FormattedResponse.message (the
\* completion text without its code blocks, empty for a completion that is
\* a code block only) and the code
CompletedReplies ==
    { [ai_response |-> "answer", code_generated |-> "none"],
      [ai_response |-> "answer", code_generated |-> "result"],
      [ai_response |-> "", code_generated |-> "result"] }

\* the i-th completed turn of a session
CompletedTurn(i, user_query, reply) ==
    [NoTurn EXCEPT !.turn_id = i, !.user_query = user_query,
                   !.intent = "general_query",
                   !.ai_response = reply.ai_response,
                   !.code_generated = reply.code_generated]

\* conversation histories of up to MaxTurns completed turns
Histories ==
    UNION { { [i \in 1..n |-> CompletedTurn(i, q[i], r[i])] :
                q \in [1..n -> Queries], r \in [1..n -> CompletedReplies] } :
            n \in 0..MaxTurns }

\* _build_conversation_context called for a session with the given history
\* whose next turn has been started
CallBuildConversationContext(history, user_query) ==
    /\ probe = NoProbe
    /\ probe' = [op |-> "build_conversation_context", history |-> history,
                 current_turn |-> start_new_turn(Len(history) + 1, user_query),
                 result |-> ConversationContextSection(history)]
    /\ UNCHANGED pipeline

RECURSIVE ListOf(_)
\* list(set(..)): the texts of a set as a list
ListOf(texts) ==
    IF texts = {} THEN <<>>
    ELSE LET t == CHOOSE t \in texts: TRUE
         IN  <<t>> \o ListOf(texts \ {t})

\* combined_entities of run_query when the classifier found no entities of
\* its own: the extractor's structured entities, as the clarifier reads
\* them with entities.get(label, [])
CombinedEntities(entity_result) ==
    LET structured == entity_result.structured_entities
        get(label) == IF label \in DOMAIN structured
                      THEN ListOf(structured[label]) ELSE <<>>
    IN  [files |-> get("files"), columns |-> get("columns"),
         statistical_methods |-> get("statistical_methods"),
         visualization_types |-> get("visualization_types"),
         confidence |-> entity_result.confidence]

\* run_query, steps 3 and 4 together: extract_entities with the context of
\* the application, then check_clarification_needed on what it returned,
\* for a session with the given focused files
CallExtractAndClarify(query, nlp, llm, intent, focused) ==
    /\ probe = NoProbe
    /\ LET context == [present |-> TRUE,
                       available_files |-> AppClarifier.available_files,
                       available_columns |->
                           SchemaColumns(AppClarifier.file_schemas)]
           entity_result == ExtractEntitiesOf(query, nlp, context, llm)
           entities == CombinedEntities(entity_result)
       IN  probe' = [op |-> "extract_and_clarify", query |-> query,
                     intent |-> intent, focused_files |-> focused,
                     patterns |-> ExtractWithPatterns(query),
                     entities |-> entities,
                     result |-> CheckClarificationNeeded(AppClarifier, intent,
                                    entities, SessionArg(focused))]
    /\ UNCHANGED pipeline

\* Executor.safe_globals as far as the four looked-up names go:
\* _setup_safe_environment binds none of them
SafeGlobals ==
    [result |-> PyUnset, output |-> PyUnset, answer |-> PyUnset,
     df |-> PyUnset]

\* generated programs run one after the other on one Executor: what the
\* program binds by assignment, and what it stores under the name result in
\* the executor's safe_globals, which it reaches through the frame that
\* called exec (sys._getframe(1).f_locals) -- most programs store nothing
SuccessivePrograms ==
    [binds : { NoProgram, [NoProgram EXCEPT !.result = PyInt(42)],
               [NoProgram EXCEPT !.answer = PyInt(7)] },
     stores_result : {PyUnset, PyInt(5)}]

\* local_vars after exec(code, local_vars, local_vars): the copy of
\* safe_globals with the names the program has bound
LocalVars(safe_globals, program) ==
    [name \in DOMAIN program.binds |->
        IF name \in DOMAIN safe_globals /\ program.binds[name] = PyUnset
        THEN safe_globals[name]
        ELSE program.binds[name]]

\* self.safe_globals after the program has run
SafeGlobalsAfter(safe_globals, program) ==
    IF program.stores_result # PyUnset
    THEN [safe_globals EXCEPT !.result = program.stores_result]
    ELSE safe_globals

\* _execute_code_safely called twice on one Executor (two turns with code)
CallExecutorTwice(first, second) ==
    /\ probe = NoProbe
    /\ LET after_first == SafeGlobalsAfter(SafeGlobals, first)
           after_second == SafeGlobalsAfter(after_first, second)
       IN  probe' =
             [op |-> "execute_twice", first |-> first, second |-> second,
              safe_globals |-> <<SafeGlobals, after_first, after_second>>,
              results |->
                << ExecuteCodeSafely(LocalVars(SafeGlobals, first)),
                   ExecuteCodeSafely(LocalVars(after_first, second)) >>]
    /\ UNCHANGED pipeline

ComponentNext ==
    \/ \E self \in {AppClarifier, TestClarifier}, intent \in IntentType,
          entities \in ClarifierEntities, session \in ClarifierSessions:
            CallClarifier(self, intent, entities, session)
    \/ \E query \in ClassifierQueries, llm \in LlmClassifierBehaviours:
            CallClassifier(query, llm)
    \/ \E query \in ExtractorQueries, nlp \in NlpBehaviours,
          context \in ExtractorContexts, llm \in LlmExtractorBehaviours:
            CallExtractor(query, nlp, context, llm)
    \/ \E entities \in MergeInputs: CallMerge(entities)
    \/ \E found \in RetrieverCandidates, entities \in RetrieverEntities,
          filters \in RetrieverFilters, n \in 0..MaxResults:
            CallRetriever(found, entities, filters, n)
    \/ \E response \in ExecutorResponses: CallExecutor(response)
    \/ \E lines \in SeqsUpTo(ResponseLines, MaxLines):
            CallExtractFallback(lines)
    \/ \E ops \in SeqsUpTo(SessionMethods, MaxOps): CallSessionMethods(ops)
    \/ \E history \in Histories, user_query \in Queries:
            CallBuildConversationContext(history, user_query)
    \/ \E query \in ExtractorQueries, nlp \in NlpBehaviours,
          llm \in LlmExtractorBehaviours, intent \in IntentType,
          focused \in {{}, {DocLab.file_path}}:
            CallExtractAndClarify(query, nlp, llm, intent, focused)
    \/ \E first \in SuccessivePrograms, second \in SuccessivePrograms:
            CallExecutorTwice(first, second)

ComponentSpec == Init /\ [][ComponentNext]_vars

\* ------------------------------------------------------------- properties
\* call c is between its start_new_turn and its complete_turn
TurnOpen(c) ==
    calls[c].pc \in {"intent", "entities", "clarify", "clarification",
                     "retrieve", "focus", "prompt", "llm", "llm_wait",
                     "execute", "complete"}

Turns(k) == {conversation_history[k][i] :
                 i \in 1..Len(conversation_history[k])}

\* C1: two run_query calls on one session never interleave: while a call is
\* between its start_new_turn and its complete_turn the session's in-flight
\* turn is the one that call started, every turn in a history carries the
\* query, intent and response of the call that started it, and no call finds
\* its turn gone when it comes to complete it.
C1_NoInterleaving ==
    /\ \A c \in Calls:
         TurnOpen(c) => current_turn[SessionOf(c)].turn_id = c
    /\ \A k \in SessionKeys: \A t \in Turns(k):
         /\ calls[t.turn_id].pc = "done"
         /\ t.user_query = calls[t.turn_id].query
         /\ t.intent = calls[t.turn_id].response.intent
         /\ t.ai_response = calls[t.turn_id].response.message
    /\ \A c \in Calls: calls[c].error # "ValueError"

\* C2: whenever run_query has returned (normally, with a clarification or
\* with the error response) and no other call has a turn open on the
\* session, the session's current_turn is None.
C2_MarkerClearedOnReturn ==
    \A c \in Calls:
        (/\ calls[c].pc = "done"
         /\ \A d \in Calls \ {c}:
              ~(TurnOpen(d) /\ SessionOf(d) = SessionOf(c)))
        => current_turn[SessionOf(c)] = NoTurn

\* C3: a call in which a stage raised has not raised itself: it returned the
\* response with intent "error" and confidence 0.
C3_StageRaiseGivesErrorResponse ==
    \A c \in Calls:
        (calls[c].error # "none" /\ ~InFlight(c))
        => /\ calls[c].pc = "done"
           /\ calls[c].response.kind = "error"
           /\ calls[c].response.intent = "error"
           /\ calls[c].response.confidence = 0

\* C4: a turn that ended in the error response left its session as it was
\* when the turn started: the turn is not in the history, and the focused
\* files are those of the start (unless another call on the session has
\* run its own focus update since).
C4_ErrorTurnLeavesSessionUntouched ==
    \A c \in Calls:
        (calls[c].pc = "done" /\ calls[c].response.kind = "error")
        => /\ \A t \in Turns(SessionOf(c)): t.turn_id # c
           /\ \/ focused_files[SessionOf(c)] = calls[c].before.focused
              \/ \E d \in Calls \ {c}:
                   /\ SessionOf(d) = SessionOf(c)
                   /\ InSeq("FOCUS", calls[d].stages)

\* C5: complete_turn with no turn in progress is rejected with an error
\* (ValueError) and leaves conversation_history and current_turn unchanged.
C5_CompleteTurnRejected ==
    [][\A c \in Calls:
         (/\ running = c
          /\ calls[c].pc \in {"clarification", "complete"}
          /\ current_turn[SessionOf(c)] = NoTurn
          /\ calls'[c] # calls[c])
         => /\ calls'[c].pc = "except"
            /\ calls'[c].error = "ValueError"
            /\ conversation_history' = conversation_history
            /\ current_turn' = current_turn]_vars

\* a complete_turn has been rejected
C5_Witness ==
    \E c \in Calls: calls[c].pc = "except" /\ calls[c].error = "ValueError"

\* C6: a successful complete_turn appends exactly the turn that was in
\* progress (its identity and query, with the fields given) as the last
\* element of conversation_history, and leaves no turn in progress.
C6_CompleteTurnAppends ==
    [][\A c \in Calls:
         (/\ running = c
          /\ calls[c].pc \in {"clarification", "complete"}
          /\ current_turn[SessionOf(c)] # NoTurn
          /\ calls'[c] # calls[c])
         => LET k == SessionOf(c)
                h == conversation_history'[k]
            IN  /\ Len(h) = Len(conversation_history[k]) + 1
                /\ SubSeq(h, 1, Len(h) - 1) = conversation_history[k]
                /\ h[Len(h)].turn_id = current_turn[k].turn_id
                /\ h[Len(h)].user_query = current_turn[k].user_query
                /\ h[Len(h)].intent = calls[c].intent_result.primary_intent
                /\ h[Len(h)].clarification_needed
                     = (calls[c].pc = "clarification")
                /\ current_turn'[k] = NoTurn]_vars

\* a turn has been appended to a history that already held one
C6_Witness ==
    \E k \in SessionKeys:
        /\ Len(conversation_history[k]) = 2
        /\ current_turn[k] = NoTurn

RECURSIVE AnsweredQueries(_, _)
\* the queries of the first n calls that worked on session k and ended in
\* a normal or clarification response, in call order
AnsweredQueries(k, n) ==
    IF n = 0 THEN <<>>
    ELSE AnsweredQueries(k, n - 1)
         \o (IF /\ calls[n].session = k
                /\ calls[n].pc = "done"
                /\ calls[n].response.kind \in {"normal", "clarification"}
             THEN <<calls[n].query>> ELSE <<>>)

\* C7: for calls issued one after another, the history of a session lists
\* exactly the queries of the calls on that session that ended in a normal
\* or clarification response, one turn each, in call order.
C7_SequentialHistory ==
    \A k \in SessionKeys:
        [i \in 1..Len(conversation_history[k]) |->
             conversation_history[k][i].user_query]
        = AnsweredQueries(k, ncalls)

\* two sequential queries, different texts, one session: history of length 2
C7_Witness ==
    \E id \in SessionIds: \E k \in SessionKeys:
        /\ sessions[id] = k
        /\ Len(conversation_history[k]) = 2
        /\ conversation_history[k][1].user_query
             # conversation_history[k][2].user_query
        /\ \A c \in Calls:
             /\ calls[c].pc = "done"
             /\ calls[c].session_id = id
             /\ calls[c].session = k

\* C8: when the clarifier returns clarification_needed the next thing the
\* call does is complete the turn, and a call that returned a clarification
\* ran START, INTENT, ENTITIES, CLARIFY_CHECK and nothing else (no
\* retrieval, focus update, prompt, completion call or execution), and its
\* turn is recorded with the question as response and the flag set.
C8_ClarificationShortCircuits ==
    \A c \in Calls:
        /\ calls[c].clarification.status = "clarification_needed"
           => /\ calls[c].pc = "clarification"
              /\ calls[c].stages
                   = <<"START", "INTENT", "ENTITIES", "CLARIFY_CHECK">>
        /\ (calls[c].pc = "done" /\ calls[c].response.kind = "clarification")
           => /\ calls[c].stages = <<"START", "INTENT", "ENTITIES",
                                     "CLARIFY_CHECK", "CLARIFICATION_NEEDED">>
              /\ calls[c].response.clarification_needed
              /\ \E t \in Turns(SessionOf(c)):
                   /\ t.turn_id = c
                   /\ t.clarification_needed
                   /\ t.ai_response = calls[c].response.message
                   /\ t.clarification_question = calls[c].response.message
                   /\ t.code_generated = "none"
                   /\ t.execution_result = "none"

\* a call has returned a clarification
C8_Witness ==
    \E c \in Calls:
        /\ calls[c].pc = "done"
        /\ calls[c].response.kind = "clarification"

\* C9: process_llm_response never raises: once the execution stage of a
\* call is over, the call has a FormattedResponse and goes on (run_query is
\* not left by an exception of the generated code).
C9_ExecutorNeverRaises ==
    \A c \in Calls:
        (InSeq("EXECUTE", calls[c].stages) /\ ~InFlight(c))
        => calls[c].pc = "done"

\* C10: a call executing code that never terminates still comes to return.
C10_ExecutionTimesOut ==
    \A c \in Calls:
        (calls[c].pc = "execute" /\ ExecDiverges(calls[c].llm_response.code))
        ~> (calls[c].pc = "done")

\* C11: a call whose completion-service call failed is not thrown onto the
\* error path by it: it goes on to the Executor with the degraded text, and
\* once it is over it has returned a normal response carrying that text and
\* the classified intent (not "error"), and its session's history holds a
\* turn with that text as response.
C11_LlmFailureDegrades ==
    \A c \in Calls:
        calls[c].llm_failed
        => /\ calls[c].pc = "execute"
              => calls[c].llm_response = LlmErrorText
           /\ ~InFlight(c)
              => /\ calls[c].pc = "done"
                 /\ InSeq("EXECUTE", calls[c].stages)
                 /\ calls[c].response.kind = "normal"
                 /\ calls[c].response.intent \in IntentType
                 /\ calls[c].response.message = LlmErrorText.prose
                 /\ \E t \in Turns(SessionOf(c)):
                      t.ai_response = LlmErrorText.prose

\* the clarifier was called and returned a result
Clarified ==
    probe.op = "check_clarification_needed" /\ ~probe.raised

\* C12: in every clarifier result, status is clarification_needed if and
\* only if missing_info is non-empty.
C12_StatusIffMissingInfo ==
    Clarified
    => (probe.result.status = "clarification_needed"
        <=> probe.result.missing_info # <<>>)

\* a result that lacks a column and a plot type although the file is clear
C12_Witness ==
    /\ Clarified
    /\ probe.entities.files = <<"lab_results.csv">>
    /\ probe.result.status = "clarification_needed"
    /\ probe.result.missing_info
         = <<"column_specification", "visualization_type">>

\* C13: with no file entity and no focused file (an empty session or no
\* session at all), the clarifier returns clarification_needed, whatever the
\* intent, with the question beginning "Which file would you like to
\* analyze?".
C13_NoFileNoFocusAsksForFile ==
    (/\ Clarified
     /\ probe.entities.files = <<>>
     /\ probe.session.focused_files = {})
    => /\ probe.result.status = "clarification_needed"
       /\ probe.result.question = "Which file would you like to analyze?"

\* the available files that contain one of the mentioned texts
MatchingFiles(self, mentioned) ==
    { self.available_files[j] : j \in
        { j \in 1..Len(self.available_files) :
            \E i \in 1..Len(mentioned):
                Substr(Lower(mentioned[i]), Lower(self.available_files[j])) } }

\* the file check of the last clarifier call passed
FileCheckPassed ==
    \A m \in {"file_specification", "valid_file", "specific_file"}:
        ~InSeq(m, probe.result.missing_info)

\* C14: with at least one file entity, the file check passes if and only if
\* the entities match exactly one available file; no matching file gives the
\* did-you-mean clarification, more than one distinct matching file the
\* disambiguation clarification.
C14_FileCheckExactlyOne ==
    (Clarified /\ probe.entities.files # <<>>)
    => LET n == Cardinality(MatchingFiles(probe.self, probe.entities.files))
       IN  /\ FileCheckPassed <=> n = 1
           /\ n = 0 => /\ InSeq("valid_file", probe.result.missing_info)
                       /\ probe.result.question
                            = "I couldn't find that file."
           /\ n > 1 => /\ InSeq("specific_file", probe.result.missing_info)
                       /\ probe.result.question
                            = "Multiple files match your request."

\* C15: the clarifier returns ready if and only if the file check passes
\* and every check the intent requires passes: at least one column (matching
\* a schema column when schemas are known) for data_visualization,
\* statistical_analysis and data_cleaning, a statistical method for
\* statistical_analysis, a plot type for data_visualization; for any other
\* intent the file check alone decides.
C15_ReadyIffRequiredChecksPass ==
    Clarified
    => LET e == probe.entities
           cols == SchemaColumns(probe.self.file_schemas)
           file_ok == CheckFileSpecification(probe.self, e, probe.session)
                      = <<>>
           column_ok ==
               /\ e.columns # <<>>
               /\ probe.self.file_schemas # <<>>
                  => \E i \in 1..Len(e.columns), j \in 1..Len(cols):
                        Substr(Lower(e.columns[i]), Lower(cols[j]))
           needs_column == probe.intent \in {"data_visualization",
                               "statistical_analysis", "data_cleaning"}
       IN  probe.result.status = "ready"
           <=> /\ file_ok
               /\ needs_column => column_ok
               /\ probe.intent = "statistical_analysis"
                  => e.statistical_methods # <<>>
               /\ probe.intent = "data_visualization"
                  => e.visualization_types # <<>>

\* ready for an intent that needs no column, with a file and no column given
C15_Witness ==
    /\ Clarified
    /\ probe.entities.files = <<"lab_results.csv">>
    /\ probe.result.status = "ready"
    /\ probe.intent = "file_summary"
    /\ probe.entities.columns = <<>>
    /\ probe.entities.statistical_methods = <<>>
    /\ probe.self = TestClarifier

\* C16: a prompt built on the normal path in a session whose history holds
\* a completed turn includes the summary (query and response) of the most
\* recent of these turns, whatever the intent of the new query.
C16_PromptIncludesEarlierTurn ==
    \A c \in Calls:
        (/\ calls[c].pc = "llm"
         /\ conversation_history[SessionOf(c)] # <<>>)
        => LET h == conversation_history[SessionOf(c)]
           IN  \E i \in 1..Len(calls[c].prompt.conversation):
                 /\ calls[c].prompt.conversation[i].user_query
                      = h[Len(h)].user_query
                 /\ calls[c].prompt.conversation[i].ai_response
                      = h[Len(h)].ai_response

\* C17: whatever the query and whatever the model-based classifier does,
\* the result of classify_intent has a confidence in [0,1] and one of the 11
\* intents as primary_intent.
C17_IntentResultInRange ==
    probe.op = "classify_intent"
    => /\ probe.result.confidence \in 0..100
       /\ probe.result.primary_intent \in IntentType

\* the model-based call failed, or its answer does not fit the schema
LlmAnswerUnusable ==
    \/ probe.llm.kind \in {"fails", "unparseable"}
    \/ probe.llm.kind = "answer" /\ probe.llm.primary_intent \notin IntentType

\* C18: when the model-based call fails or its answer cannot be parsed into
\* the intent schema, classify_intent returns exactly the rule-based result
\* for the query: the intent with the highest pattern score (the default
\* search_retrieval at 0.3 when nothing matches) at min(0.9, 0.2*score+0.3).
C18_FallbackToRuleBased ==
    (probe.op = "classify_intent" /\ LlmAnswerUnusable)
    => /\ probe.result = RuleBasedClassification(probe.query)
       /\ \A i \in IntentType:
            PatternScore(probe.query, i)
              <= PatternScore(probe.query, probe.result.primary_intent)
       /\ probe.result.confidence
            = Min(90, 30 + 20 * PatternScore(probe.query,
                                             probe.result.primary_intent))

\* an answer naming no known intent with a confidence above the rule-based
\* one, on a query whose rule-based confidence is below 0.7
C18_Witness ==
    /\ probe.op = "classify_intent"
    /\ probe.llm.kind = "answer"
    /\ probe.llm.primary_intent = "plotting"
    /\ probe.llm.confidence = 85
    /\ probe.result.primary_intent = "data_visualization"
    /\ probe.result.confidence = 50

\* C19: every entity in the output of extract_entities has a confidence in
\* [0,1], whether it comes from a pattern, the linguistic pass, the context
\* validation or the model-based extraction.
C19_EntityConfidenceInRange ==
    probe.op = "extract_entities"
    => \A i \in 1..Len(probe.result.entities):
         probe.result.entities[i].confidence \in 0..100

\* C20: the merged list has exactly one entity per (lowercased text, label)
\* pair of the input, that entity is one of the input's with the highest
\* confidence among the pair's duplicates, and merging the merged list gives
\* the same list.
C20_MergeKeepsHighest ==
    probe.op = "merge_entities"
    => LET e == probe.entities
           r == probe.result
       IN  /\ \A i, j \in 1..Len(r):
                MergeKey(r[i]) = MergeKey(r[j]) => i = j
           /\ {MergeKey(r[i]) : i \in 1..Len(r)}
                = {MergeKey(e[i]) : i \in 1..Len(e)}
           /\ \A i \in 1..Len(r):
                /\ \E j \in 1..Len(e): e[j] = r[i]
                /\ \A j \in 1..Len(e):
                     MergeKey(e[j]) = MergeKey(r[i])
                     => e[j].confidence <= r[i].confidence
           /\ probe.again = r

\* three entities under one key (texts differing in case), the highest
\* confidence in the middle, merged into one
C20_Witness ==
    /\ probe.op = "merge_entities"
    /\ probe.entities = << Entity("Glucose", "columns", 50),
                           Entity("glucose", "columns", 80),
                           Entity("Glucose", "columns", 50) >>
    /\ probe.result = << Entity("glucose", "columns", 80) >>

\* the retriever was called and returned a result
Retrieved == probe.op = "retrieve_context" /\ ~probe.raised

\* C21: whatever the query, the entities, the filters and max_results >= 0,
\* retrieve_context returns at most max_results documents, and as many
\* file_paths as documents.
C21_AtMostMaxResults ==
    Retrieved
    => /\ Len(probe.result.documents) <= probe.max_results
       /\ Len(probe.result.file_paths) = Len(probe.result.documents)

\* more candidates than max_results, cut down to max_results
C21_Witness ==
    /\ Retrieved
    /\ probe.max_results = 1
    /\ Len(probe.candidates) = 2
    /\ Len(probe.result.documents) = 1

\* the document's file name contains one of the file entities
MatchesFileEntity(doc, files) ==
    \E i \in 1..Len(files): Substr(Lower(files[i]), Lower(doc.file_name))

\* C22: with file entities of which at least one candidate document's file
\* name contains one, every returned document's file name contains some
\* file entity; a returned document whose name contains none means that no
\* candidate matched (the fallback to the unfiltered candidates).
C22_FileEntitiesConstrain ==
    (Retrieved /\ probe.entities.files # <<>>)
    => LET docs == probe.result.documents
           some_match ==
               \E j \in 1..Len(probe.candidates):
                   MatchesFileEntity(probe.candidates[j],
                                     probe.entities.files)
       IN  /\ some_match
              => \A i \in 1..Len(docs):
                   MatchesFileEntity(docs[i], probe.entities.files)
           /\ ~some_match
              => \A i \in 1..Len(docs):
                   \E j \in 1..Len(probe.candidates):
                       docs[i] = probe.candidates[j]

\* three candidates of which one matches the file entity and another one
\* the column entity: only the file's document is returned
C22_Witness ==
    /\ Retrieved
    /\ probe.found = <<DocDemo, DocNotes, DocLab>>
    /\ probe.entities.files = <<"lab_results.csv">>
    /\ probe.max_results = 3
    /\ probe.result.documents = <<DocLab>>

\* the notice of the prompt for a retrieval without documents
NoFilesNotice ==
    "No specific files found. Please specify which data to analyze."

\* C23: a retrieval whose semantic search handed back nothing does not
\* fail: the call goes on to the focus update with an empty document list
\* and a retrieval confidence of at most 0.6, no error is recorded, and
\* the prompt it then builds carries the notice that no file was found.
C23_EmptySearchContinues ==
    \A c \in Calls:
        /\ (/\ InFlight(c)
            /\ calls[c].stages[Len(calls[c].stages)] = "RETRIEVE"
            /\ calls[c].found = <<>>)
           => /\ calls[c].pc = "focus"
              /\ calls[c].error = "none"
              /\ calls[c].documents = <<>>
              /\ calls[c].retrieval_confidence <= 60
        /\ (calls[c].pc = "llm" /\ calls[c].documents = <<>>)
           => /\ calls[c].prompt.context = NoFilesNotice
              /\ calls[c].error = "none"

\* a call whose retrieval found nothing although its entities hold a value
\* that is not a string has built its prompt
C23_Witness ==
    \E c \in Calls:
        /\ calls[c].pc = "llm"
        /\ calls[c].documents = <<>>
        /\ HasNonStr(calls[c].entities.columns)
        /\ calls[c].prompt.context = NoFilesNotice

\* C24: a run_query naming an ID that is not in the store puts one new
\* session, with empty history and no focused files, under that ID and
\* touches no other entry of the store; one naming an ID that is in the store
\* works on the session stored there and starts from its history and
\* focused files; an ID leaves the store, or comes to hold another session,
\* only by clear_session, which makes the ID unknown.
C24_SessionLifecycle ==
    [][\A id \in SessionIds:
         /\ (ncalls' = ncalls + 1 /\ calls'[ncalls'].session_id = id)
            => LET c == ncalls'
                   k == calls'[c].session
               IN  /\ sessions'[id] = k
                   /\ \A other \in StoreIds \ {id}:
                        sessions'[other] = sessions[other]
                   /\ IF sessions[id] = NoKey
                      THEN /\ \A d \in Calls \ {c}: calls[d].session # k
                           /\ calls'[c].before.history = <<>>
                           /\ calls'[c].before.focused = {}
                           /\ conversation_history'[k] = <<>>
                           /\ focused_files'[k] = {}
                      ELSE /\ k = sessions[id]
                           /\ calls'[c].before.history
                                = conversation_history[k]
                           /\ calls'[c].before.focused = focused_files[k]
                           /\ conversation_history'[k]
                                = conversation_history[k]
                           /\ focused_files'[k] = focused_files[k]
         /\ (ncalls' = ncalls /\ sessions'[id] # sessions[id])
            => /\ sessions[id] # NoKey
               /\ sessions'[id] = NoKey
               /\ running = 0
       ]_vars

\* a call on an ID has recorded a turn, the ID was cleared, and the next
\* call on that ID works on a new session with empty history
C24_Witness ==
    \E id \in SessionIds:
        /\ calls[1].session_id = id
        /\ calls[1].pc = "done"
        /\ calls[1].session = 1
        /\ conversation_history[1] # <<>>
        /\ focused_files[1] # {}
        /\ calls[2].session_id = id
        /\ calls[2].session = 2
        /\ sessions[id] = 2
        /\ calls[2].before.history = <<>>
        /\ calls[2].before.focused = {}

RECURSIVE FirstWithValue(_, _)
\* the value of the first of the four names, from the i-th on, that the
\* program leaves with a value (None if none has one)
FirstWithValue(program, i) ==
    IF i > Len(ResultVars) THEN PyNone
    ELSE IF program[ResultVars[i]] \notin {PyUnset, PyNone}
         THEN program[ResultVars[i]]
    ELSE FirstWithValue(program, i + 1)

\* C25: when the executed code leaves a value in one of result, output,
\* answer, df, the output reported is the text of the value of the first of
\* them (in that order) that has one; the captured standard output is the
\* output reported when none of them has a value; and the execution_result
\* of a block fenced as python that leaves result = 42 contains "42".
C25_ResultPriority ==
    (/\ probe.op = "process_llm_response"
     /\ probe.result.code
     /\ ~probe.response.program.raises)
    => LET program == probe.response.program
           value == FirstWithValue(program, 1)
       IN  /\ value # PyNone => probe.result.output = ResultStr(value)
           /\ value = PyNone => probe.result.output = program.stdout
           /\ (/\ probe.response.fence = "python, newline"
               /\ program.result = PyInt(42))
              => InSeq("42", probe.result.execution_result)

\* the steps of run_query as the calls record them, on the path through the
\* completion (FOCUS is the focus update that follows the retrieval) and
\* on the path that returns a clarification (its last step completes the
\* turn and returns)
NormalPath ==
    <<"START", "INTENT", "ENTITIES", "CLARIFY_CHECK", "RETRIEVE", "FOCUS",
      "PROMPT", "COMPLETE", "EXECUTE", "END">>

ClarificationPath ==
    <<"START", "INTENT", "ENTITIES", "CLARIFY_CHECK", "CLARIFICATION_NEEDED">>

IsPrefix(s, t) == Len(s) <= Len(t) /\ s = SubSeq(t, 1, Len(s))

Last(s) == IF s = <<>> THEN "none" ELSE s[Len(s)]

\* C26: the stages a call has run are always an initial part of START,
\* INTENT, ENTITIES, CLARIFY_CHECK followed by CLARIFICATION_NEEDED or by
\* RETRIEVE, PROMPT, COMPLETE, EXECUTE, END (so each runs at most once);
\* a step runs one stage of one call; while a call awaits the completion
\* nothing of it changes, and EXECUTE runs only on the completion's result;
\* and the turn a call started is added to the history only by that call,
\* as its step after EXECUTE or as its return of a clarification.
C26_StageOrder ==
    [][/\ \A c \in Calls:
            /\ \/ IsPrefix(calls'[c].stages, NormalPath)
               \/ IsPrefix(calls'[c].stages, ClarificationPath)
            /\ calls'[c].stages # calls[c].stages
               => /\ Len(calls'[c].stages) = Len(calls[c].stages) + 1
                  /\ \A d \in Calls \ {c}:
                       calls'[d].stages = calls[d].stages
            /\ (calls[c].pc = "llm_wait" /\ calls'[c].pc = "llm_wait")
               => calls'[c] = calls[c]
            /\ (/\ Last(calls'[c].stages) = "EXECUTE"
                /\ Last(calls[c].stages) # "EXECUTE")
               => /\ Last(calls[c].stages) = "COMPLETE"
                  /\ calls[c].pc = "execute"
                  /\ calls[c].llm_response # NoLlmResponse
       /\ \A k \in SessionKeys:
            conversation_history'[k] # conversation_history[k]
            => \E c \in Calls:
                 /\ running = c
                 /\ SessionOf(c) = k
                 /\ conversation_history'[k]
                      [Len(conversation_history'[k])].turn_id = c
                 /\ \/ /\ Last(calls[c].stages) = "EXECUTE"
                       /\ Last(calls'[c].stages) = "END"
                    \/ /\ Last(calls[c].stages) = "CLARIFY_CHECK"
                       /\ Last(calls'[c].stages) = "CLARIFICATION_NEEDED"
      ]_vars

\* the categories in the order file, column, statistical method,
\* visualization type
CategoryPriority ==
    <<"file_specification", "valid_file", "specific_file",
      "column_specification", "valid_columns", "statistical_method",
      "visualization_type">>

RECURSIVE FirstMissing(_, _)
\* the first category, from the i-th of the order on, that is missing
FirstMissing(missing_info, i) ==
    IF i > Len(CategoryPriority) THEN "none"
    ELSE IF InSeq(CategoryPriority[i], missing_info) THEN CategoryPriority[i]
    ELSE FirstMissing(missing_info, i + 1)

\* C27: the question of a clarification result is the question for the
\* first missing category in the order file, column, statistical method,
\* visualization type, and the suggestion it embeds is the suggestion that
\* category's check produced.
C27_QuestionForFirstMissing ==
    (Clarified /\ probe.result.status = "clarification_needed")
    => LET first == FirstMissing(probe.result.missing_info, 1)
       IN  /\ first # "none"
           /\ probe.result.question
                = GenerateClarificationQuestion(<<first>>)
           /\ probe.result.embedded = SuggestionFor(first)

\* three categories missing at once (file, column, visualization type)
C27_Witness ==
    /\ Clarified
    /\ probe.result.missing_info
         = <<"file_specification", "column_specification",
             "visualization_type">>
    /\ probe.result.question = "Which file would you like to analyze?"
    /\ probe.result.embedded = "Available files:"

\* the highest pattern-match count of the query over the intents
TopScore(query) ==
    LET scores == {PatternScore(query, intent) : intent \in IntentType}
    IN  CHOOSE n \in scores: \A m \in scores: m <= n

\* C28: the rule-based result is search_retrieval with confidence 0.3 when
\* no intent has a match; otherwise its primary intent has the highest
\* count, its secondary intents are exactly the other intents whose count
\* is at least half the highest (each once, never the primary), and its
\* confidence is min(0.9, 0.2 * highest count + 0.3).
C28_RuleBasedScoring ==
    probe.op = "classify_intent"
    => LET r == probe.rule_based
           top == TopScore(probe.query)
           secondary == {r.secondary_intents[i] :
                            i \in 1..Len(r.secondary_intents)}
       IN  IF top = 0
           THEN /\ r.primary_intent = "search_retrieval"
                /\ r.confidence = 30
           ELSE /\ PatternScore(probe.query, r.primary_intent) = top
                /\ secondary
                     = {intent \in IntentType \ {r.primary_intent} :
                          2 * PatternScore(probe.query, intent) >= top}
                /\ Cardinality(secondary) = Len(r.secondary_intents)
                /\ r.confidence = Min(90, 20 * top + 30)

\* a query with five matches for one intent and one for another, which is
\* left out of the secondary intents
C28_Witness ==
    /\ probe.op = "classify_intent"
    /\ PatternScore(probe.query, "data_visualization") = 5
    /\ PatternScore(probe.query, "search_retrieval") = 1
    /\ probe.rule_based.primary_intent = "data_visualization"
    /\ probe.rule_based.secondary_intents = <<>>
    /\ probe.rule_based.confidence = 90

\* C29: the model-based classifier is invoked exactly when there is one and
\* the rule-based confidence is below 0.7; its result is returned when it
\* was invoked and its confidence is strictly greater than the rule-based
\* one, and the rule-based result is returned otherwise (at equal
\* confidence, and whenever the rule-based confidence is at least 0.7).
C29_LlmOnlyWhenUnsure ==
    probe.op = "classify_intent"
    => /\ probe.invoked
          <=> (probe.llm.kind # "absent" /\ probe.rule_based.confidence < 70)
       /\ IF /\ probe.invoked
             /\ probe.llm_result.confidence > probe.rule_based.confidence
          THEN probe.result = probe.llm_result
          ELSE probe.result = probe.rule_based

\* the model answers another intent with the rule-based confidence, and
\* the rule-based result is returned
C29_Witness ==
    /\ probe.op = "classify_intent"
    /\ probe.invoked
    /\ probe.llm.kind = "answer"
    /\ probe.llm.primary_intent = "statistical_analysis"
    /\ probe.llm.confidence = 50
    /\ probe.rule_based.confidence = 50
    /\ probe.result.primary_intent = "data_visualization"

\* C30: when the model-based classifier was consulted and names the same
\* primary intent as the rule-based one, the confidence returned is strictly
\* greater than the rule-based confidence; and the result returned is the
\* one of the two with the higher confidence.
C30_AgreementRaisesConfidence ==
    (/\ probe.op = "classify_intent"
     /\ probe.invoked
     /\ probe.llm.kind = "answer"
     /\ probe.llm.primary_intent \in IntentType)
    => /\ probe.llm_result.primary_intent = probe.rule_based.primary_intent
          => probe.result.confidence > probe.rule_based.confidence
       /\ probe.result.confidence >= probe.rule_based.confidence
       /\ probe.result.confidence >= probe.llm_result.confidence

\* a line of code, with or without a code-like token
IsCodeLine(line) == line \in {"import pandas as pd", "x = 1"}

RECURSIVE CodeRun(_, _)
\* the lines from the i-th on up to the first that is neither code, nor a
\* comment, nor blank
CodeRun(lines, i) ==
    IF i > Len(lines) THEN <<>>
    ELSE IF IsCodeLine(lines[i]) \/ StartsWithHash(lines[i])
            \/ IsBlank(lines[i])
    THEN <<lines[i]>> \o CodeRun(lines, i + 1)
    ELSE <<>>

\* C31: for a text without a fenced block, the code extracted starts at the
\* first line holding a code-like token and ends before the first line
\* after it that is neither code, nor a comment, nor blank; no line of prose
\* that follows the code is part of it.
C31_FallbackStopsAtProse ==
    probe.op = "extract_code"
    => LET lines == probe.lines
           starts == {i \in 1..Len(lines) : HasKeyword(lines[i])}
       IN  IF starts = {} THEN probe.result = <<>>
           ELSE LET first == CHOOSE i \in starts: \A j \in starts: i <= j
                IN  probe.result
                      = StripLines(<<lines[first]>>
                                   \o CodeRun(lines, first + 1))

\* C32: when the executed code returns without leaving any of result,
\* output, answer, df, the execution_result is marked as failed, as it is
\* when the code raises, and the code is still part of the response.
C32_NoResultMarkedFailed ==
    (/\ probe.op = "process_llm_response"
     /\ probe.result.code
     /\ \/ probe.response.program.raises
        \/ \A i \in 1..Len(ResultVars):
             probe.response.program[ResultVars[i]] = PyUnset)
    => InSeq("Execution failed:", probe.result.execution_result)

\* C33: a turn that entered conversation_history never changes afterwards and
\* is never removed or moved: in every step, every session object's history
\* keeps all its entries, unchanged and at the same positions, and can only
\* get longer at its end
C33_HistoryAppendOnly ==
    [][\A k \in SessionKeys:
          /\ Len(conversation_history'[k]) >= Len(conversation_history[k])
          /\ \A i \in 1..Len(conversation_history[k]):
                conversation_history'[k][i] = conversation_history[k][i]]_vars

\* a session whose history holds a completed turn while a later turn of the
\* same session has been started and has added its focus
C33_Witness ==
    \E k \in SessionKeys:
        /\ Len(conversation_history[k]) = 1
        /\ current_turn[k] # NoTurn
        /\ current_turn[k].turn_id # conversation_history[k][1].turn_id
        /\ focused_files[k] # {}
        /\ \E c \in Calls: /\ calls[c].session = k
                            /\ calls[c].pc = "llm_wait"
                            /\ current_turn[k].turn_id = c

\* the file is in focus after the method calls ops[1..j]
InFocusAfter(ops, j, file_path) ==
    \E a \in 1..j:
        /\ ops[a].op = "add_file_focus"
        /\ ops[a].file_path = file_path
        /\ \A b \in a..j: ops[b].op # "clear_file_focus"

\* C34: a filter applied to a file in focus stays attached to it, with the
\* value applied last, through every later add_file_focus; only a later
\* clear_file_focus removes it
C34_FiltersSurviveRefocus ==
    probe.op = "session_methods"
    => \A j \in 1..Len(probe.ops):
         LET m == probe.ops[j]
         IN  (/\ m.op = "apply_file_filter"
              /\ InFocusAfter(probe.ops, j, m.file_path)
              /\ \A b \in (j + 1)..Len(probe.ops):
                    /\ probe.ops[b].op # "clear_file_focus"
                    /\ ~(/\ probe.ops[b].op = "apply_file_filter"
                         /\ probe.ops[b].file_path = m.file_path
                         /\ probe.ops[b].filter_name = m.filter_name))
             => LET context == probe.result[m.file_path]
                IN  /\ context.in_focus
                    /\ context.applied_filters[m.filter_name] = m.filter_value

\* C35: the conversation-context section built for a turn is the notice when
\* the session has no completed turn, and otherwise holds the summary of
\* each of the last three (or fewer) completed turns, oldest first, and
\* nothing of the turn in flight
C35_ContextCoversRecentTurns ==
    probe.op = "build_conversation_context"
    => LET history == probe.history
           n == Min(3, Len(history))
       IN  /\ probe.result.notice <=> history = <<>>
           /\ probe.result.parts
                = [i \in 1..n |-> TurnSummary(history[Len(history) - n + i])]

\* the session ID call c works under: the one it names, or its fresh uuid4
IdOf(c) ==
    IF calls[c].session_id # NoId THEN calls[c].session_id
    ELSE NumSessions + c

\* call c is the only call made under its session ID
AloneOnId(c) ==
    \A d \in Calls \ {c}: calls[d].pc # "idle" => IdOf(d) # IdOf(c)

\* the session state a lone call c leaves: nothing in the history and its
\* own turn open until it has completed the turn, then that one turn with
\* the call's own query, intent and answer
IsolatedOutcome(c) ==
    LET k == SessionOf(c)
        r == calls[c].response
    IN  IF calls[c].pc = "done" /\ r.kind \in {"normal", "clarification"}
        THEN /\ current_turn[k] = NoTurn
             /\ Len(conversation_history[k]) = 1
             /\ LET t == conversation_history[k][1]
                IN  /\ t.turn_id = c
                    /\ t.user_query = calls[c].query
                    /\ t.intent = r.intent
                    /\ t.ai_response = r.message
                    /\ t.clarification_needed = r.clarification_needed
        ELSE /\ conversation_history[k] = <<>>
             /\ current_turn[k] = start_new_turn(c, calls[c].query)

C37_FocusKeepsFileQuestionAway ==
    /\ [](\A c \in Calls:
            /\ (/\ calls[c].pc \in {"prompt", "llm", "llm_wait", "execute",
                                     "complete"}
                /\ calls[c].documents # <<>>)
               => focused_files[SessionOf(c)] # {}
            /\ (/\ calls[c].pc = "clarification"
                /\ calls[c].entities.files = <<>>
                /\ focused_files[SessionOf(c)] # {})
               => /\ calls[c].clarification.question
                        # "Which file would you like to analyze?"
                  /\ ~InSeq("file_specification",
                            calls[c].clarification.missing_info))
    /\ [][\A k \in SessionKeys:
            focused_files[k] \subseteq focused_files'[k]]_vars

\* a later query without a file entity, in a session that has a focused file
\* from an earlier turn, is answered with another clarification
C37_Witness ==
    \E c \in Calls:
        /\ calls[c].pc = "clarification"
        /\ calls[c].entities.files = <<>>
        /\ focused_files[SessionOf(c)] # {}
        /\ \E d \in Calls: /\ d < c
                            /\ SessionOf(d) = SessionOf(c)
                            /\ calls[d].pc = "done"
                            /\ calls[d].response.kind = "normal"
        /\ calls[c].clarification.question
             = "Which columns or variables would you like to analyze?"

\* C38: a query whose only file mention matches no available file is
\* answered with the could-not-find-that-file clarification and does not go
\* on to retrieval, with or without a focused file in the session
C38_UnknownFileAsksAgain ==
    (/\ probe.op = "extract_and_clarify"
     /\ \E i \in 1..Len(probe.patterns): probe.patterns[i].label = "files"
     /\ \A i \in 1..Len(probe.patterns):
           probe.patterns[i].label = "files"
           => MatchingFiles(AppClarifier, <<probe.patterns[i].text>>) = {})
    => /\ probe.result.status = "clarification_needed"
       /\ InSeq("valid_file", probe.result.missing_info)
       /\ probe.result.question = "I couldn't find that file."

\* the session call c works on is no longer the one stored under the ID the
\* call named: the ID was cleared after the call started
ClearedUnder(c) ==
    /\ calls[c].pc # "idle"
    /\ calls[c].session_id # NoId
    /\ sessions[calls[c].session_id] # SessionOf(c)

\* C39: once clear_session has removed the session of a call in progress,
\* no step of that call changes the store, the removed session never comes
\* back into the store, and the ID gets a session again only by the start of
\* a later run_query naming it, which works on a new session with an empty
\* history and its own turn in flight
C39_ClearedSessionStaysCleared ==
    [][\A c \in Calls: ClearedUnder(c) =>
         LET id == calls[c].session_id
         IN  /\ calls'[c] # calls[c] => sessions' = sessions
             /\ sessions'[id] # SessionOf(c)
             /\ (sessions[id] = NoKey /\ sessions'[id] # NoKey)
                => LET d == ncalls'
                       k == sessions'[id]
                   IN  /\ ncalls' = ncalls + 1
                       /\ calls'[d].session_id = id
                       /\ calls'[d].session = k
                       /\ calls'[d].before.history = <<>>
                       /\ conversation_history'[k] = <<>>
                       /\ current_turn'[k].turn_id = d
       ]_vars

\* the session of the first call was cleared while the call was suspended
\* at the completion service: a second call on the same ID has started on a
\* new, empty session meanwhile, and the first call has resumed and is about
\* to complete its turn on the removed session
C39_Witness ==
    /\ calls[1].pc = "complete"
    /\ calls[1].session_id # NoId
    /\ calls[2].session_id = calls[1].session_id
    /\ calls[2].pc = "llm_wait"
    /\ calls[2].before.history = <<>>
    /\ sessions[calls[1].session_id] = SessionOf(2)
    /\ SessionOf(2) # SessionOf(1)
    /\ conversation_history[SessionOf(2)] = <<>>

\* C40: when two programs are executed one after the other, the executor's
\* approved bindings are the same before and after each execution, and the
\* second execution reports exactly what the second program alone reports:
\* nothing the first program left is taken for its result
C40_ExecutionsStartFresh ==
    probe.op = "execute_twice"
    => /\ \A i \in 1..3: probe.safe_globals[i] = SafeGlobals
       /\ probe.results[2] = ExecuteCodeSafely(probe.second.binds)

====
